---- MODULE Spec2Model ----
(***************************************************************************)
(* A model of embedded-text's tokenizer (src/src/parser.rs) and of the     *)
(* per-line layout algorithm LineElementParser (src/src/rendering/         *)
(* line_iter.rs).                                                          *)
(*                                                                         *)
(* A text is a sequence of characters.  Positions in the text are byte     *)
(* offsets, as in the code (Chars iterators, str::len, Parser::consume);   *)
(* NBSP (U+00A0) and SHY (U+00AD) are two bytes long in UTF-8.             *)
(***************************************************************************)
EXTENDS Integers, Sequences, FiniteSets, TLC

\* ------------------------------------------------------------- bounds
\* Longest text laid out or tokenized.
MaxLen == 3
\* Widest line, in pixels.
MaxWidth == 4
\* Tab pitch in pixels (TabSize::into_pixels of the style).
TabPitch == 2

\* ------------------------------------------------------------- characters
\* "a" and "m" are printable glyphs (one narrow, one wide), "SP" a space,
\* "TAB" a tab, "NL" \n, "CR" \r, "NBSP" U+00A0, "SHY" U+00AD.
Alphabet == {"a", "m", "SP", "TAB", "NL", "CR", "NBSP", "SHY"}

SPEC_CHAR_NBSP == "NBSP"

\* The glyph a Break token carries for a soft hyphen.
HyphenGlyph == <<"-">>

\* The texts given to the Parser alone also hold "EMSP", U+2003 EM SPACE: a
\* whitespace character of three bytes.
ParserAlphabet == Alphabet \cup {"EMSP"}

\* The texts laid out with the ansi feature also hold escape sequences, each
\* written as one symbol: "SGR" is ESC[1m (a style change), "CUF" ESC[2C
\* (CursorForward(2)) and "CUB" ESC[2D (CursorBackward(2)), four bytes each.
EscapeChars == {"SGR", "CUF", "CUB"}

\* char::len_utf8 (for an escape sequence: the bytes of the sequence)
Utf8Len(c) ==
    IF c \in {"NBSP", "SHY"} THEN 2
    ELSE IF c = "EMSP" THEN 3
    ELSE IF c \in EscapeChars THEN 4
    ELSE 1

\* char::is_whitespace (U+00A0 has the White_Space property, U+00AD has not)
IsWhitespace(c) == c \in {"SP", "TAB", "NL", "CR", "NBSP", "EMSP"}

\* str::len: the length of a string in bytes
RECURSIVE ByteLen(_)
ByteLen(s) == IF s = <<>> THEN 0 ELSE Utf8Len(Head(s)) + ByteLen(Tail(s))

\* The string left after `n` bytes of `s` (Chars::as_str after advancing, or
\* s.get_unchecked(n..)); n lies on a character boundary in every use.
RECURSIVE DropBytes(_, _)
DropBytes(s, n) ==
    IF n <= 0 \/ s = <<>> THEN s ELSE DropBytes(Tail(s), n - Utf8Len(Head(s)))

\* The first `n` bytes of `s` (s.get_unchecked(0..n)).
RECURSIVE TakeBytes(_, _)
TakeBytes(s, n) ==
    IF n <= 0 \/ s = <<>> THEN <<>>
    ELSE <<Head(s)>> \o TakeBytes(Tail(s), n - Utf8Len(Head(s)))

\* Whether byte offset n of s is a character boundary.
RECURSIVE IsCharBoundary(_, _)
IsCharBoundary(s, n) ==
    IF n = 0 THEN TRUE
    ELSE IF n < 0 \/ s = <<>> THEN FALSE
    ELSE IsCharBoundary(Tail(s), n - Utf8Len(Head(s)))

\* The longest prefix of s whose characters all lie in S.
RECURSIVE TakeIn(_, _)
TakeIn(s, S) ==
    IF s = <<>> \/ Head(s) \notin S THEN <<>>
    ELSE <<Head(s)>> \o TakeIn(Tail(s), S)

\* n copies of character c.
Repeat(c, n) == [i \in 1..n |-> c]

Min(a, b) == IF a <= b THEN a ELSE b
Max(a, b) == IF a >= b THEN a ELSE b

\* ------------------------------------------------------------- tokens
\* One record shape for every token: `n` is the count of a Whitespace,
\* `str` the text a token carries (empty when it carries none).
Tok(type, n, str) == [type |-> type, n |-> n, str |-> str]
NoToken == Tok("None", 0, <<>>)

\* ------------------------------------------------------------- Parser (src/src/parser.rs)
is_word_char_not_nbsp(c) == ~IsWhitespace(c)

is_word_char(c) == ~IsWhitespace(c) \/ c = "NBSP"

is_space_char(c) == IsWhitespace(c) /\ c \notin {"NL", "CR", "NBSP"}

SpaceChars == {c \in ParserAlphabet : is_space_char(c)}
WordCharsOld == {c \in ParserAlphabet : is_word_char(c)}

\* Parser::next on a parser whose unprocessed text is `string`: the token it
\* returns and the number of bytes self.inner has advanced by.  Whitespace
\* carries only the number of characters of the run; Word carries
\* string[0..offset].
ParserNextWord_offset_in_chars(string) ==
    LET run == TakeIn(string, WordCharsOld)
        offset == Len(run)
    IN  [tok |-> Tok("Word", 0, TakeBytes(string, offset)), len |-> offset]

ParserNextWord(string) ==
    LET run == TakeIn(string, WordCharsOld)
        offset == ByteLen(run)
    IN  [tok |-> Tok("Word", 0, TakeBytes(string, offset)), len |-> offset]

ParserNext_counting_bytes(string) ==
    IF string = <<>> THEN [tok |-> NoToken, len |-> 0]
    ELSE LET c == Head(string)
         IN  CASE c = "NL" -> [tok |-> Tok("NewLine", 0, <<>>), len |-> Utf8Len(c)]
               [] c = "CR" -> [tok |-> Tok("CarriageReturn", 0, <<>>), len |-> Utf8Len(c)]
               [] is_space_char(c) ->
                    LET run == TakeIn(string, SpaceChars)
                    IN  [tok |-> Tok("Whitespace", ByteLen(run), <<>>), len |-> ByteLen(run)]
               [] OTHER -> ParserNextWord(string)

ParserNext_without_advancing(string) ==
    IF string = <<>> THEN [tok |-> NoToken, len |-> 0]
    ELSE LET c == Head(string)
         IN  CASE c = "NL" -> [tok |-> Tok("NewLine", 0, <<>>), len |-> 0]
               [] c = "CR" -> [tok |-> Tok("CarriageReturn", 0, <<>>), len |-> 0]
               [] is_space_char(c) ->
                    LET run == TakeIn(string, SpaceChars)
                    IN  [tok |-> Tok("Whitespace", Len(run), <<>>), len |-> 0]
               [] OTHER -> [tok |-> ParserNextWord(string).tok, len |-> 0]

ParserNext(string) ==
    IF string = <<>> THEN [tok |-> NoToken, len |-> 0]
    ELSE LET c == Head(string)
         IN  CASE c = "NL" -> [tok |-> Tok("NewLine", 0, <<>>), len |-> Utf8Len(c)]
               [] c = "CR" -> [tok |-> Tok("CarriageReturn", 0, <<>>), len |-> Utf8Len(c)]
               [] is_space_char(c) ->
                    LET run == TakeIn(string, SpaceChars)
                    IN  [tok |-> Tok("Whitespace", Len(run), <<>>), len |-> ByteLen(run)]
               [] OTHER -> ParserNextWord(string)

\* ------------------------------------------------------------- tokenizer of the line layout
\* The token stream line_iter.rs consumes has Tab, Break(glyph, original) and
\* Whitespace(count, span) tokens, which the Parser above does not produce: a
\* tab is its own token, a soft hyphen interrupts a word and becomes a Break
\* carrying the hyphen glyph, a non-breaking space is a word character.
LayoutSpaceChars == {"SP"}
LayoutWordChars == {"a", "m", "NBSP"}

NextToken(string) ==
    IF string = <<>> THEN [tok |-> NoToken, len |-> 0]
    ELSE LET c == Head(string)
         IN  CASE c = "NL" -> [tok |-> Tok("NewLine", 0, <<>>), len |-> Utf8Len(c)]
               [] c = "CR" -> [tok |-> Tok("CarriageReturn", 0, <<>>), len |-> Utf8Len(c)]
               [] c = "TAB" -> [tok |-> Tok("Tab", 0, <<>>), len |-> Utf8Len(c)]
               [] c = "SHY" -> [tok |-> Tok("Break", 0, <<c>>), len |-> Utf8Len(c)]
               [] c \in EscapeChars ->
                    [tok |-> Tok("EscapeSequence", IF c = "SGR" THEN 0 ELSE 2, <<c>>),
                     len |-> Utf8Len(c)]
               [] c \in LayoutSpaceChars ->
                    LET run == TakeIn(string, LayoutSpaceChars)
                    IN  [tok |-> Tok("Whitespace", Len(run), run), len |-> ByteLen(run)]
               [] OTHER ->
                    LET run == TakeIn(string, LayoutWordChars)
                    IN  [tok |-> Tok("Word", 0, run), len |-> ByteLen(run)]

\* ------------------------------------------------------------- measuring
\* FontExt::total_char_width: the advance of one character.  The hyphen
\* glyph and the spaces are as wide as the narrow glyph.
total_char_width(c) == IF c = "m" THEN 2 ELSE 1

\* FontExt::str_width, the handler's measure(): the sum of the advances.
RECURSIVE str_width(_)
str_width(s) == IF s = <<>> THEN 0 ELSE total_char_width(Head(s)) + str_width(Tail(s))

\* ------------------------------------------------------------- LineCursor
\* A cursor is [width, position].  move_cursor returns Ok(by) and moves when
\* the whole move fits, Err(space left) and does not move when it does not
\* (test cursor_limit: after the refused move of "Some" the prefix "So" is
\* measured from the unmoved position).
fits_in_line(cursor, width) == width <= cursor.width - cursor.position

move_cursor(cursor, by) ==
    IF by < 0
    THEN IF -by <= cursor.position
         THEN [ok |-> TRUE, moved |-> by,
               cursor |-> [cursor EXCEPT !.position = cursor.position + by]]
         ELSE [ok |-> FALSE, moved |-> -cursor.position, cursor |-> cursor]
    ELSE IF by <= cursor.width - cursor.position
         THEN [ok |-> TRUE, moved |-> by,
               cursor |-> [cursor EXCEPT !.position = cursor.position + by]]
         ELSE [ok |-> FALSE, moved |-> cursor.width - cursor.position, cursor |-> cursor]

next_tab_width(cursor) ==
    (cursor.position \div TabPitch + 1) * TabPitch - cursor.position

\* ------------------------------------------------------------- SpaceConfig
\* A space configuration is [width, count]: the width of one space and the
\* number of spaces still to be drawn one pixel wider (justification).
\* consume(n) returns the width of the next n spaces and uses them up.
space_width_of(spaces, n) == n * spaces.width + Min(spaces.count, n)

consumed(spaces, n) == [spaces EXCEPT !.count = Max(0, spaces.count - n)]

\* SpaceConfig::new_from_renderer: every space as wide as the space glyph.
new_from_renderer == [width |-> str_width(<<"SP">>), count |-> 0]

\* ------------------------------------------------------------- events
\* What the ElementHandler is told.
Whitespace(count, width) == [kind |-> "whitespace", st |-> <<>>, count |-> count, width |-> width]
PrintedCharacters(st, width) == [kind |-> "printed_characters", st |-> st, count |-> 0, width |-> width]
MoveCursorEvent(by) == [kind |-> "move_cursor", st |-> <<>>, count |-> 0, width |-> by]
SgrEvent(seq) == [kind |-> "sgr", st |-> seq, count |-> 0, width |-> 0]

\* ------------------------------------------------------------- state
VARIABLES
    text,       \* the text buffer (borrowed, never changed)
    mode,       \* "collect"/"collected": Parser used as an iterator;
                \* "process": inside LineElementParser::process;
                \* "returned": process has returned
    inner,      \* collect: bytes of text the Parser has processed
    tokens,     \* collect: the tokens Parser::next has returned, in order
    lep,        \* the LineElementParser: [lookahead, cursor, parser, spaces,
                \* alignment, empty]; parser and lookahead are byte offsets
    elements,   \* the events the handler received in this process call
    result,     \* the LineEndType the last process call returned
    exit,       \* the place in process that returned
    iters,      \* iterations of the loop of process in this call
    lines,      \* one record per process call that returned
    failing,    \* the handler call of a process call that returns an error
                \* (its number among the calls of that process call), 0: none
    mw          \* the pipeline wrapper (MiddlewareWrapper or PluginWrapper),
                \* its source Parser and what its last method returned

\* The layout specifications use no pipeline wrapper of their own.
NoPipeline == [wrapper |-> "None"]

vars == <<text, mode, inner, tokens, lep, elements, result, exit, iters, lines, failing, mw>>

Texts == UNION {[1..n -> Alphabet] : n \in 0..MaxLen}

HorizontalAlignment == {"Left", "Center", "Right", "Justified"}

\* ------------------------------------------------------------- Parser as an iterator
\* Parser::parse(text), before the first call of next.
InitParser ==
    /\ text \in Texts
    /\ mode = "collect"
    /\ inner = 0
    /\ tokens = <<>>
    /\ lep = [lookahead |-> 0, cursor |-> [width |-> 0, position |-> 0], parser |-> 0,
              spaces |-> new_from_renderer, alignment |-> "Left", empty |-> TRUE]
    /\ elements = <<>>
    /\ result = "None"
    /\ exit = "None"
    /\ iters = 0
    /\ lines = <<>>
    /\ failing = 0
    /\ mw = NoPipeline

\* One call of Parser::next that returns Some(token).
Next_Some ==
    /\ mode = "collect"
    /\ DropBytes(text, inner) # <<>>
    /\ LET r == ParserNext(DropBytes(text, inner))
       IN  /\ tokens' = Append(tokens, r.tok)
           /\ inner' = inner + r.len
    /\ UNCHANGED <<text, mode, lep, elements, result, exit, iters, lines, failing, mw>>

\* The call of Parser::next that returns None: the collection is complete.
Next_None ==
    /\ mode = "collect"
    /\ DropBytes(text, inner) = <<>>
    /\ mode' = "collected"
    /\ UNCHANGED <<text, inner, tokens, lep, elements, result, exit, iters, lines, failing, mw>>

NextParser == Next_Some \/ Next_None

SpecParser == InitParser /\ [][NextParser]_vars

\* The Parser called on and on, also after it returned None, over texts that
\* may hold a whitespace character of three bytes.  `result` is what the last
\* call of next returned ("Some" or "None") and `iters` counts the calls.
ParserTexts == UNION {[1..n -> ParserAlphabet] : n \in 0..MaxLen}

\* Calls of next made after the text is exhausted.
MaxAgain == 2

InitCalls ==
    /\ text \in ParserTexts
    /\ mode = "calls"
    /\ inner = 0
    /\ tokens = <<>>
    /\ lep = [lookahead |-> 0, cursor |-> [width |-> 0, position |-> 0], parser |-> 0,
              spaces |-> new_from_renderer, alignment |-> "Left", empty |-> TRUE]
    /\ elements = <<>>
    /\ result = "None"
    /\ exit = "None"
    /\ iters = 0
    /\ lines = <<>>
    /\ failing = 0
    /\ mw = NoPipeline

\* Parser::is_empty and Parser::remaining
is_empty == DropBytes(text, inner) = <<>>

remaining == ByteLen(DropBytes(text, inner))

\* One call of Parser::next.
Parser_next ==
    /\ mode = "calls"
    /\ iters < Len(text) + MaxAgain
    /\ LET r == ParserNext(DropBytes(text, inner))
       IN  /\ inner' = inner + r.len
           /\ tokens' = IF r.tok = NoToken THEN tokens ELSE Append(tokens, r.tok)
           /\ result' = IF r.tok = NoToken THEN "None" ELSE "Some"
    /\ iters' = iters + 1
    /\ UNCHANGED <<text, mode, lep, elements, exit, lines, failing, mw>>

SpecCalls == InitCalls /\ [][Parser_next]_vars

\* ------------------------------------------------------------- LineElementParser helpers
\* LineElementParser::new: a parser for one line, at `parser`.
new(parser, width, alignment) ==
    [lookahead |-> parser, cursor |-> [width |-> width, position |-> 0],
     parser |-> parser, spaces |-> new_from_renderer, alignment |-> alignment,
     empty |-> TRUE]

\* ------------------------------------------------------------- TextBoxStyle::measure_text
\* str::lines: the pieces between line feeds, without a final empty piece,
\* each without the carriage return that ends it.
RECURSIVE split_terminator(_, _)
split_terminator(s, piece) ==
    IF s = <<>> THEN (IF piece = <<>> THEN <<>> ELSE <<piece>>)
    ELSE IF Head(s) = "NL" THEN <<piece>> \o split_terminator(Tail(s), <<>>)
    ELSE split_terminator(Tail(s), Append(piece, Head(s)))

str_lines(s) ==
    LET pieces == split_terminator(s, <<>>)
    IN  [k \in 1..Len(pieces) |->
            IF pieces[k] # <<>> /\ pieces[k][Len(pieces[k])] = "CR"
            THEN SubSeq(pieces[k], 1, Len(pieces[k]) - 1)
            ELSE pieces[k]]

\* Font::CHARACTER_SIZE.height of the font of the tests (Font6x8).
CharHeight == 8

\* The loop over the characters of a Word: `rows` is current_rows.
RECURSIVE measure_word(_, _, _, _, _)
measure_word(w, total_width, word_width, rows, max_width) ==
    IF w = <<>> THEN [rows |-> rows, total_width |-> total_width + word_width]
    ELSE LET width == total_char_width(Head(w))
         IN  IF total_width + word_width + width <= max_width
             THEN measure_word(Tail(w), total_width, word_width + width, rows, max_width)
             ELSE IF total_width = 0
                  THEN measure_word(Tail(w), 0, width, rows + 1, max_width)
                  ELSE measure_word(Tail(w), 0, word_width + width, rows + 1, max_width)

\* The loop over the units of a Whitespace(n).
RECURSIVE measure_whitespace(_, _, _, _)
measure_whitespace(n, total_width, rows, max_width) ==
    IF n = 0 THEN [rows |-> rows, total_width |-> total_width]
    ELSE LET width == total_char_width("SP")
         IN  IF total_width + width <= max_width
             THEN measure_whitespace(n - 1, total_width + width, rows, max_width)
             ELSE measure_whitespace(n - 1, width, rows + 1, max_width)

\* The closure of measure_text on one line: current_rows after the tokens
\* of `string`.
RECURSIVE measure_line_rows(_, _, _, _)
measure_line_rows(string, total_width, rows, max_width) ==
    LET r == ParserNext(string)
        rest == DropBytes(string, r.len)
    IN  CASE r.tok = NoToken -> rows
          [] r.tok.type = "Word" ->
               LET m == measure_word(r.tok.str, total_width, 0, rows, max_width)
               IN  measure_line_rows(rest, m.total_width, m.rows, max_width)
          [] r.tok.type = "Whitespace" ->
               LET m == measure_whitespace(r.tok.n, total_width, rows, max_width)
               IN  measure_line_rows(rest, m.total_width, m.rows, max_width)
          [] OTHER -> measure_line_rows(rest, total_width, rows, max_width)

RECURSIVE SumRows(_, _)
SumRows(ls, max_width) ==
    IF ls = <<>> THEN 0
    ELSE measure_line_rows(Head(ls), 0, 1, max_width) + SumRows(Tail(ls), max_width)

measure_text(s, max_width) == SumRows(str_lines(s), max_width) * CharHeight

\* measure_text called once on a text without a carriage return inside a
\* line (its match has no arm for that token); `lep.cursor.width` is
\* max_width and `result` the height returned.
MeasureTexts == UNION {[1..n -> Alphabet \ {"CR"}] : n \in 0..MaxLen}

InitMeasure ==
    /\ text \in MeasureTexts
    /\ mode = "measure"
    /\ inner = 0
    /\ tokens = <<>>
    /\ \E max_width \in 0..MaxWidth : lep = new(0, max_width, "Left")
    /\ elements = <<>>
    /\ result = "None"
    /\ exit = "None"
    /\ iters = 0
    /\ lines = <<>>
    /\ failing = 0
    /\ mw = NoPipeline

MeasureText ==
    /\ mode = "measure"
    /\ mode' = "measured"
    /\ result' = measure_text(text, lep.cursor.width)
    /\ UNCHANGED <<text, inner, tokens, lep, elements, exit, iters, lines, failing, mw>>

SpecMeasure == InitMeasure /\ [][MeasureText]_vars

\* next_word_width: the width of the words that follow self.lookahead up to
\* and including the next Break's glyph; NoWidth stands for None.
NoWidth == -1

RECURSIVE next_word_width_from(_)
next_word_width_from(string) ==
    LET r == NextToken(string)
    IN  CASE r.tok.type = "Word" ->
               LET more == next_word_width_from(DropBytes(string, r.len))
               IN  str_width(r.tok.str) + (IF more = NoWidth THEN 0 ELSE more)
          [] r.tok.type = "Break" -> str_width(HyphenGlyph)
          [] r.tok.type = "EscapeSequence" -> next_word_width_from(DropBytes(string, r.len))
          [] OTHER -> NoWidth

next_word_width(self) == next_word_width_from(DropBytes(text, self.lookahead))

\* longest_fitting_substr: the number of bytes of the longest prefix of w
\* made of whole characters that fits_in_line, `width` being the width of
\* the characters before w.
RECURSIVE fitting_bytes_one_more(_, _, _)
fitting_bytes_one_more(cursor, w, width) ==
    IF w = <<>> THEN 0
    ELSE LET char_width == str_width(<<Head(w)>>)
         IN  IF ~fits_in_line(cursor, width) THEN 0
             ELSE Utf8Len(Head(w)) + fitting_bytes_one_more(cursor, Tail(w), width + char_width)

RECURSIVE fitting_bytes(_, _, _)
fitting_bytes(cursor, w, width) ==
    IF w = <<>> THEN 0
    ELSE LET char_width == str_width(<<Head(w)>>)
         IN  IF ~fits_in_line(cursor, width + char_width) THEN 0
             ELSE Utf8Len(Head(w)) + fitting_bytes(cursor, Tail(w), width + char_width)

\* (word, remainder): remainder is None when every character fits.
longest_fitting_substr(self, w) ==
    LET idx == fitting_bytes(self.cursor, w, 0)
    IN  [word |-> TakeBytes(w, idx),
         some |-> idx < ByteLen(w),
         remainder |-> DropBytes(w, idx)]

\* next_word_fits: from self.parser (the token being laid out included),
\* whether the whitespace and tabs up to the next Word or Break and that
\* word (or the Break's glyph) fit after the cursor.
RECURSIVE next_word_fits_from(_, _, _)
next_word_fits_from(string, cursor, spaces) ==
    LET r == NextToken(string)
        t == r.tok
    IN  CASE t.type \in {"Word", "Break"} ->
               move_cursor(cursor, str_width(IF t.type = "Word" THEN t.str ELSE HyphenGlyph)).ok
          [] t.type = "Whitespace" ->
               LET m == move_cursor(cursor, space_width_of(spaces, t.n))
               IN  m.ok /\ next_word_fits_from(DropBytes(string, r.len), m.cursor, consumed(spaces, t.n))
          [] t.type = "Tab" ->
               LET m == move_cursor(cursor, next_tab_width(cursor))
               IN  m.ok /\ next_word_fits_from(DropBytes(string, r.len), m.cursor, spaces)
          [] t.type = "EscapeSequence" /\ t.str = <<"CUF">> ->
               LET m == move_cursor(cursor, t.n)
               IN  m.ok /\ next_word_fits_from(DropBytes(string, r.len), m.cursor, spaces)
          [] t.type = "EscapeSequence" /\ t.str = <<"CUB">> ->
               LET m == move_cursor(cursor, -t.n)
               IN  m.ok /\ next_word_fits_from(DropBytes(string, r.len), m.cursor, spaces)
          [] t.type = "EscapeSequence" ->
               next_word_fits_from(DropBytes(string, r.len), cursor, spaces)
          [] OTHER -> FALSE

next_word_fits(self) ==
    next_word_fits_from(DropBytes(text, self.parser), self.cursor, self.spaces)

render_trailing_spaces_always(self) == TRUE

render_trailing_spaces(self) == FALSE

render_leading_spaces_always(self) == TRUE

render_leading_spaces(self) == self.alignment = "Left"

\* consume_token
consume_token(self) == [self EXCEPT !.parser = self.lookahead]

\* consume_str: the parser advances by the bytes of string, the lookahead
\* restarts from it.
consume_str_stuck(self, string) == [self EXCEPT !.lookahead = self.parser]

consume_str(self, string) ==
    [self EXCEPT !.parser = self.parser + ByteLen(string),
                 !.lookahead = self.parser + ByteLen(string)]

\* The outcome of one arm of process: the parser after it, the events it
\* emitted, and whether (and how) process returns.
Go(self, ev) == [self |-> self, ev |-> ev, ret |-> FALSE, result |-> "None", exit |-> "None"]
Ret(self, ev, res, where) == [self |-> self, ev |-> ev, ret |-> TRUE, result |-> res, exit |-> where]

\* ------------------------------------------------------------- process_word
\* process_word on w with the space configuration `spaces`: the events it
\* emits and the space configuration left.  str::get(i..) is Some for every
\* boundary i <= len, the end of the word included.
RECURSIVE process_word(_, _)
process_word(spaces, w) ==
    IF \A i \in 1..Len(w) : w[i] # SPEC_CHAR_NBSP
    THEN [ev |-> <<PrintedCharacters(w, str_width(w))>>, spaces |-> spaces]
    ELSE LET k == CHOOSE i \in 1..Len(w) :
                      /\ w[i] = SPEC_CHAR_NBSP
                      /\ \A j \in 1..(i - 1) : w[j] # SPEC_CHAR_NBSP
             space_pos == ByteLen(SubSeq(w, 1, k - 1))
             word == TakeBytes(w, space_pos)
             before == IF space_pos # 0
                       THEN <<PrintedCharacters(word, str_width(word))>>
                       ELSE <<>>
             space == <<Whitespace(1, space_width_of(spaces, 1))>>
             rest == process_word(consumed(spaces, 1),
                                  DropBytes(w, space_pos + Utf8Len(SPEC_CHAR_NBSP)))
         IN  [ev |-> before \o space \o rest.ev, spaces |-> rest.spaces]

\* ------------------------------------------------------------- the arms of process
draw_whitespace(self, string, space_count, space_width) ==
    IF self.empty /\ ~render_leading_spaces(self) THEN Go(self, <<>>)
    ELSE LET draw == \/ (self.empty /\ render_leading_spaces(self))
                     \/ render_trailing_spaces(self)
                     \/ next_word_fits(self)
             m == move_cursor(self.cursor, space_width)
             moved == [self EXCEPT !.cursor = m.cursor]
         IN  IF m.ok /\ draw THEN Go(moved, <<Whitespace(space_count, m.moved)>>)
             ELSE IF m.ok THEN Go(moved, <<MoveCursorEvent(m.moved)>>)
             ELSE LET single == space_width \div space_count
                      n == m.moved \div single
                  IN  Go(consume_str(self, string),
                         IF n > 0 THEN <<Whitespace(n, n * single)>> ELSE <<>>)

draw_tab(self, space_width) ==
    IF self.empty /\ ~render_leading_spaces(self) THEN Go(self, <<>>)
    ELSE LET draw == \/ (self.empty /\ render_leading_spaces(self))
                     \/ render_trailing_spaces(self)
                     \/ next_word_fits(self)
             m == move_cursor(self.cursor, space_width)
             moved == [self EXCEPT !.cursor = m.cursor]
         IN  IF m.ok /\ draw THEN Go(moved, <<Whitespace(1, m.moved)>>)
             ELSE Go(moved, <<MoveCursorEvent(m.moved)>>)

\* Token::Whitespace(n, seq)
WhitespaceArm(self, n, seq) ==
    draw_whitespace([self EXCEPT !.spaces = consumed(self.spaces, n)], seq, n,
                    space_width_of(self.spaces, n))

\* Token::Tab
TabArm_full_pitch(self) == draw_tab(self, TabPitch)

TabArm(self) == draw_tab(self, next_tab_width(self.cursor))

\* Token::Break(c, _original)
break_line_keeps_break(self, c) ==
    LET width == str_width(c)
        m == move_cursor(self.cursor, width)
        after == IF m.ok THEN [self EXCEPT !.cursor = m.cursor] ELSE self
        ev == IF m.ok THEN <<PrintedCharacters(c, width)>> ELSE <<>>
    IN  IF ~self.empty THEN Ret(after, ev, "LineBreak", "Break")
        ELSE Go(after, ev)

\* The Break arm when "this line is done": the break character is printed
\* and the Break consumed if the cursor can move by its width; the line ends
\* unless it is empty.
break_line(self, c) ==
    LET width == str_width(c)
        m == move_cursor(self.cursor, width)
        after == IF m.ok THEN consume_token([self EXCEPT !.cursor = m.cursor])
                 ELSE self
        ev == IF m.ok THEN <<PrintedCharacters(c, width)>> ELSE <<>>
    IN  IF ~self.empty THEN Ret(after, ev, "LineBreak", "Break")
        ELSE Go(after, ev)

BreakArm(self, c) ==
    LET word_width == next_word_width(self)
    IN  IF word_width # NoWidth /\ (~fits_in_line(self.cursor, word_width) \/ self.empty)
        THEN break_line(self, c)
        ELSE Go(self, <<>>)

\* The Word arm when not even the first character fits an empty line: the
\* token is consumed and the line ends.
no_fit_keeps_token(self) == Ret(self, <<>>, "LineBreak", "NoFit")

no_fit(self) == Ret(consume_token(self), <<>>, "LineBreak", "NoFit")

\* The Word arm when the word does not fit a line that holds a word already.
word_wrap_consumes(self) == Ret(consume_token(self), <<>>, "LineBreak", "WordWrap")

word_wrap(self) == Ret(self, <<>>, "LineBreak", "WordWrap")

\* Token::Word(w)
WordArm_wraps_anywhere(self, w) ==
    LET width == str_width(w)
        m == move_cursor(self.cursor, width)
    IN  IF m.ok
        THEN LET pw == process_word(self.spaces, w)
             IN  Go([self EXCEPT !.cursor = m.cursor, !.empty = FALSE, !.spaces = pw.spaces],
                    pw.ev)
        ELSE LET f == longest_fitting_substr(self, w)
                 pw == process_word(self.spaces, f.word)
                 drawn == [self EXCEPT !.empty = FALSE, !.spaces = pw.spaces]
             IN  IF f.word = <<>>
                 THEN no_fit(self)
                 ELSE IF f.some
                 THEN Ret(consume_str(drawn, f.word), pw.ev, "LineBreak", "CharWrap")
                 ELSE Go(drawn, pw.ev)

WordArm(self, w) ==
    LET width == str_width(w)
        m == move_cursor(self.cursor, width)
    IN  IF m.ok
        THEN LET pw == process_word(self.spaces, w)
             IN  Go([self EXCEPT !.cursor = m.cursor, !.empty = FALSE, !.spaces = pw.spaces],
                    pw.ev)
        ELSE IF self.empty
        THEN LET f == longest_fitting_substr(self, w)
                 pw == process_word(self.spaces, f.word)
                 drawn == [self EXCEPT !.empty = FALSE, !.spaces = pw.spaces]
             IN  IF f.word = <<>>
                 THEN no_fit(self)
                 ELSE IF f.some
                 THEN Ret(consume_str(drawn, f.word), pw.ev, "LineBreak", "CharWrap")
                 ELSE Go(drawn, pw.ev)
        ELSE word_wrap(self)

\* Token::EscapeSequence(seq): a style change is handed to the handler; a
\* cursor movement of n space widths moves the cursor as far as move_cursor
\* allows and reports the distance move_cursor returned, Ok or Err.
Abs(x) == IF x < 0 THEN -x ELSE x

EscapeSequenceArm(self, n, seq) ==
    CASE seq = <<"CUF">> ->
           LET m == move_cursor(self.cursor, n * str_width(<<"SP">>))
           IN  Go([self EXCEPT !.cursor = m.cursor], <<Whitespace(0, m.moved)>>)
      [] seq = <<"CUB">> ->
           LET m == move_cursor(self.cursor, -(n * str_width(<<"SP">>)))
           IN  Go([self EXCEPT !.cursor = m.cursor],
                  <<MoveCursorEvent(m.moved), Whitespace(0, Abs(m.moved)),
                    MoveCursorEvent(m.moved)>>)
      [] OTHER -> Go(self, <<SgrEvent(seq)>>)

\* Token::CarriageReturn, Token::NewLine
CarriageReturnArm(self) == Ret(consume_token(self), <<>>, "CarriageReturn", "CarriageReturn")

NewLineArm_as_carriage_return(self) ==
    Ret(consume_token(self), <<>>, "CarriageReturn", "NewLine")

NewLineArm(self) == Ret(consume_token(self), <<>>, "NewLine", "NewLine")

\* The end of the tokens: the loop of process is left.
EndArm(self) == Ret(consume_token(self), <<>>, "EndOfText", "EndOfText")

\* ------------------------------------------------------------- process, one iteration per step
\* peek_next_token: consume_token, then the next token of the lookahead
\* (the middleware's next_token hook passes the parser's token through).
Peek == NextToken(DropBytes(text, lep.lookahead))

Peeked == [lep EXCEPT !.parser = lep.lookahead, !.lookahead = lep.lookahead + Peek.len]

\* Where the line of the current process call started.
LineStart == IF lines = <<>> THEN 0 ELSE lines[Len(lines)].end

\* One iteration of the loop of process when every handler call returns Ok.
Continue(o) ==
    /\ lep' = o.self
    /\ elements' = elements \o o.ev
    /\ iters' = iters + 1
    /\ IF o.ret
       THEN /\ mode' = "returned"
            /\ result' = o.result
            /\ exit' = o.exit
            /\ lines' = Append(lines, [start |-> LineStart, end |-> o.self.parser,
                                       elements |-> elements \o o.ev,
                                       result |-> o.result, exit |-> o.exit,
                                       token |-> Peek.tok])
       ELSE UNCHANGED <<mode, result, exit, lines>>
    /\ UNCHANGED <<text, inner, tokens, failing, mw>>

\* The handler call number `failing` is among the calls of this iteration.
Fails(o) == failing > 0 /\ Len(elements) < failing /\ Len(elements \o o.ev) >= failing

\* The iteration when that call returns Err: the `?` after the call returns
\* the error from process.  The calls up to the failing one were made; the
\* cursor had moved before the call and the token is not consumed yet.
Propagate(o) ==
    /\ elements' = SubSeq(elements \o o.ev, 1, failing)
    /\ mode' = "failed"
    /\ result' = "Err"
    /\ exit' = "Error"
    /\ lep' = [Peeked EXCEPT !.cursor = o.self.cursor]
    /\ iters' = iters + 1
    /\ UNCHANGED <<text, inner, tokens, lines, failing, mw>>

Apply_ignores_error(o) == Continue(o)

Apply(o) == IF Fails(o) THEN Propagate(o) ELSE Continue(o)

ProcessWhitespace ==
    /\ mode = "process" /\ Peek.tok.type = "Whitespace"
    /\ Apply(WhitespaceArm(Peeked, Peek.tok.n, Peek.tok.str))

ProcessTab ==
    /\ mode = "process" /\ Peek.tok.type = "Tab"
    /\ Apply(TabArm(Peeked))

ProcessBreak ==
    /\ mode = "process" /\ Peek.tok.type = "Break"
    /\ Apply(BreakArm(Peeked, HyphenGlyph))

ProcessWord ==
    /\ mode = "process" /\ Peek.tok.type = "Word"
    /\ Apply(WordArm(Peeked, Peek.tok.str))

ProcessCarriageReturn ==
    /\ mode = "process" /\ Peek.tok.type = "CarriageReturn"
    /\ Apply(CarriageReturnArm(Peeked))

ProcessNewLine ==
    /\ mode = "process" /\ Peek.tok.type = "NewLine"
    /\ Apply(NewLineArm(Peeked))

ProcessEnd ==
    /\ mode = "process" /\ Peek.tok.type = "None"
    /\ Apply(EndArm(Peeked))

\* The caller lays out the next line: a new LineElementParser on the same
\* Parser, with a fresh cursor and space configuration, and process again.
StartLine ==
    /\ mode = "returned" /\ result # "EndOfText"
    /\ lep' = new(lep.parser, lep.cursor.width, lep.alignment)
    /\ elements' = <<>>
    /\ iters' = 0
    /\ mode' = "process"
    /\ result' = "None"
    /\ exit' = "None"
    /\ UNCHANGED <<text, inner, tokens, lines, failing, mw>>

Init ==
    /\ text \in Texts
    /\ mode = "process"
    /\ inner = 0
    /\ tokens = <<>>
    /\ \E width \in 0..MaxWidth, alignment \in HorizontalAlignment :
           lep = new(0, width, alignment)
    /\ elements = <<>>
    /\ result = "None"
    /\ exit = "None"
    /\ iters = 0
    /\ lines = <<>>
    /\ failing = 0
    /\ mw = NoPipeline

ProcessEscapeSequence ==
    /\ mode = "process" /\ Peek.tok.type = "EscapeSequence"
    /\ Apply(EscapeSequenceArm(Peeked, Peek.tok.n, Peek.tok.str))

Next ==
    \/ ProcessWhitespace
    \/ ProcessTab
    \/ ProcessBreak
    \/ ProcessWord
    \/ ProcessCarriageReturn
    \/ ProcessNewLine
    \/ ProcessEnd
    \/ StartLine

Spec == Init /\ [][Next]_vars

\* The layout of texts that end with two glyphs joined by a non-breaking
\* space, after any text of less than MaxLen characters.
Glyphs == {"a", "m"}

GluedTexts ==
    {pre \o <<x, SPEC_CHAR_NBSP, y>> :
        pre \in UNION {[1..n -> Alphabet] : n \in 0..(MaxLen - 1)},
        x \in Glyphs, y \in Glyphs}

InitGlued ==
    /\ text \in GluedTexts
    /\ mode = "process"
    /\ inner = 0
    /\ tokens = <<>>
    /\ \E width \in 0..MaxWidth, alignment \in HorizontalAlignment :
           lep = new(0, width, alignment)
    /\ elements = <<>>
    /\ result = "None"
    /\ exit = "None"
    /\ iters = 0
    /\ lines = <<>>
    /\ failing = 0
    /\ mw = NoPipeline

SpecGlued == InitGlued /\ [][Next]_vars

\* The layout with a space configuration of a justified line: the caller
\* hands LineElementParser::new a configuration whose first `count` spaces
\* are one unit wider.
SpaceConfigs == {[width |-> str_width(<<"SP">>), count |-> k] : k \in 0..MaxLen}

InitJustified ==
    /\ text \in Texts
    /\ mode = "process"
    /\ inner = 0
    /\ tokens = <<>>
    /\ \E width \in 0..MaxWidth, alignment \in HorizontalAlignment, spaces \in SpaceConfigs :
           lep = [new(0, width, alignment) EXCEPT !.spaces = spaces]
    /\ elements = <<>>
    /\ result = "None"
    /\ exit = "None"
    /\ iters = 0
    /\ lines = <<>>
    /\ failing = 0
    /\ mw = NoPipeline

SpecJustified == InitJustified /\ [][Next]_vars

\* The layout with the ansi feature, of texts with one escape sequence
\* between two short texts of glyphs and spaces.
AnsiTexts ==
    LET Short == UNION {[1..n -> {"a", "m", "SP"}] : n \in 0..(MaxLen - 1)}
    IN  {pre \o <<e>> \o post : pre \in Short, e \in EscapeChars, post \in Short}

InitAnsi ==
    /\ text \in AnsiTexts
    /\ mode = "process"
    /\ inner = 0
    /\ tokens = <<>>
    /\ \E width \in 0..MaxWidth, alignment \in HorizontalAlignment :
           lep = new(0, width, alignment)
    /\ elements = <<>>
    /\ result = "None"
    /\ exit = "None"
    /\ iters = 0
    /\ lines = <<>>
    /\ failing = 0
    /\ mw = NoPipeline

NextAnsi ==
    \/ ProcessWhitespace
    \/ ProcessWord
    \/ ProcessEscapeSequence
    \/ ProcessEnd
    \/ StartLine

SpecAnsi == InitAnsi /\ [][NextAnsi]_vars

\* The layout with a handler whose call number `failing` returns an error.
MaxFail == 3

InitFail ==
    /\ text \in Texts
    /\ mode = "process"
    /\ inner = 0
    /\ tokens = <<>>
    /\ \E width \in 0..MaxWidth, alignment \in HorizontalAlignment :
           lep = new(0, width, alignment)
    /\ elements = <<>>
    /\ result = "None"
    /\ exit = "None"
    /\ iters = 0
    /\ lines = <<>>
    /\ failing \in 1..MaxFail
    /\ mw = NoPipeline

SpecFail == InitFail /\ [][Next]_vars

\* ------------------------------------------------------------- the pipeline wrappers
\* MiddlewareWrapper (middleware.rs) and PluginWrapper (plugin/mod.rs) around
\* a modifier and a source Parser.  mw is
\*   [wrapper, state, peeked_len, peeked_token, lookahead, middleware, source,
\*    op, arg, ret, before, steps]:
\* peeked_token is NoToken for None; lookahead and middleware are the two
\* copies of the modifier (PluginWrapper has one, `plugin`, kept in
\* middleware); source is the byte offset of the source Parser; op, arg and
\* ret are the last method called, its token argument and what it returned;
\* before is the modifier as it was when a peek last invoked next_token, and
\* filled tells what last wrote the cache: "peek" (a call of the hook by
\* peek_token), "replace" or "empty" (construction or a method that clears it).
Wrappers == {"MiddlewareWrapper", "PluginWrapper"}

ProcessingState == {"Measure", "Render"}

\* The hooks of the modifiers: the defaults of the trait, a modifier that
\* drops a token, one that skips a token, one that injects a token first.
Hooks == {"default", "drop", "skip", "inject"}

MaxSteps == 4

InjectedToken == Tok("Word", 0, <<"m">>)

\* A modifier that was not used yet: its hooks and the calls made to them.
Fresh(hook) == [hook |-> hook, calls |-> 0, rcalls |-> 0, notes |-> 0]

\* Middleware::next_token / Plugin::next_token over the tokens of string:
\* the token returned, the bytes its calls of next_token() pulled, and the
\* modifier afterwards.
hook_next_token(m, string) ==
    LET r1 == NextToken(string)
        r2 == NextToken(DropBytes(string, r1.len))
        after == [m EXCEPT !.calls = m.calls + 1]
    IN  CASE m.hook = "drop" -> [tok |-> NoToken, len |-> r1.len, m |-> after]
          [] m.hook = "skip" -> [tok |-> r2.tok, len |-> r1.len + r2.len, m |-> after]
          [] m.hook = "inject" /\ m.calls = 0 ->
               [tok |-> InjectedToken, len |-> 0, m |-> after]
          [] OTHER -> [tok |-> r1.tok, len |-> r1.len, m |-> after]

\* Middleware::render_token / Plugin::render_token.
hook_render_token(m, token) ==
    LET after == [m EXCEPT !.rcalls = m.rcalls + 1]
    IN  CASE m.hook = "drop" -> [tok |-> NoToken, m |-> after]
          [] m.hook = "inject" -> [tok |-> InjectedToken, m |-> after]
          [] OTHER -> [tok |-> token, m |-> after]

\* Middleware::new_line, on_start_render and post_render (Plugin likewise):
\* the modifier takes note of the event.
hook_note(m) == [m EXCEPT !.notes = m.notes + 1]

\* MiddlewareWrapper::new, PluginWrapper::new
wrapper_new_in_render(wrapper, hook) ==
    [wrapper |-> wrapper, state |-> "Render",
     peeked_len |-> 0, peeked_token |-> NoToken,
     lookahead |-> Fresh(hook), middleware |-> Fresh(hook),
     source |-> 0, op |-> "new", arg |-> NoToken, ret |-> NoToken,
     before |-> Fresh(hook), filled |-> "empty", len |-> 0, steps |-> 0]

wrapper_new(wrapper, hook) ==
    [wrapper |-> wrapper, state |-> "Measure",
     peeked_len |-> 0, peeked_token |-> NoToken,
     lookahead |-> Fresh(hook), middleware |-> Fresh(hook),
     source |-> 0, op |-> "new", arg |-> NoToken, ret |-> NoToken,
     before |-> Fresh(hook), filled |-> "empty", len |-> 0, steps |-> 0]

set_state(w, state) == [w EXCEPT !.state = state, !.ret = NoToken]

render_token_in_every_state(w, token) ==
    IF w.wrapper = "MiddlewareWrapper"
    THEN LET h == hook_render_token(w.lookahead, token)
         IN  [w EXCEPT !.lookahead = h.m, !.ret = h.tok]
    ELSE LET h == hook_render_token(w.middleware, token)
         IN  [w EXCEPT !.middleware = h.m, !.ret = h.tok]

render_token(w, token) ==
    IF w.state = "Measure" THEN [w EXCEPT !.ret = token]
    ELSE IF w.wrapper = "MiddlewareWrapper"
    THEN LET h == hook_render_token(w.lookahead, token)
         IN  [w EXCEPT !.lookahead = h.m, !.ret = h.tok]
    ELSE LET h == hook_render_token(w.middleware, token)
         IN  [w EXCEPT !.middleware = h.m, !.ret = h.tok]

\* Parser::as_str of the source: what the source has not produced yet.
as_str(w) == DropBytes(text, w.source)

peek_token(w) ==
    IF w.peeked_token # NoToken THEN [w EXCEPT !.ret = w.peeked_token]
    ELSE IF w.wrapper = "MiddlewareWrapper"
    THEN LET h == hook_next_token(w.lookahead, as_str(w))
         IN  [w EXCEPT !.peeked_token = h.tok, !.peeked_len = h.len,
                       !.before = w.lookahead, !.lookahead = h.m, !.ret = h.tok,
                       !.filled = "peek"]
    ELSE LET h == hook_next_token(w.middleware, as_str(w))
         IN  [w EXCEPT !.peeked_token = h.tok, !.source = w.source + h.len,
                       !.before = w.middleware, !.middleware = h.m, !.ret = h.tok,
                       !.filled = "peek"]

consume_peeked_token_without_commit(w) ==
    IF w.wrapper = "MiddlewareWrapper"
    THEN [w EXCEPT !.source = w.source + w.peeked_len,
                   !.peeked_len = 0, !.peeked_token = NoToken,
                   !.ret = NoToken, !.filled = "empty"]
    ELSE [w EXCEPT !.peeked_token = NoToken, !.ret = NoToken, !.filled = "empty"]

consume_peeked_token(w) ==
    IF w.wrapper = "MiddlewareWrapper"
    THEN [w EXCEPT !.source = w.source + w.peeked_len,
                   !.peeked_len = 0, !.peeked_token = NoToken,
                   !.middleware = w.lookahead, !.ret = NoToken,
                   !.filled = "empty"]
    ELSE [w EXCEPT !.peeked_token = NoToken, !.ret = NoToken, !.filled = "empty"]

replace_peeked_token(w, len, token) ==
    [w EXCEPT !.peeked_len = len, !.peeked_token = token,
              !.lookahead = w.middleware, !.ret = NoToken, !.filled = "replace"]

\* skip_chars of consume_partial: str without its first n characters.
RECURSIVE skip_chars(_, _)
skip_chars(str, n) ==
    IF n = 0 \/ str = <<>> THEN str ELSE skip_chars(Tail(str), n - 1)

consume_partial_keeps_count(w, len) ==
    LET t == w.peeked_token
    IN  [w EXCEPT !.peeked_token = Tok(t.type, t.n, skip_chars(t.str, len)),
                  !.ret = NoToken]

\* PluginWrapper::consume_partial, called with a Whitespace or a Word cached.
consume_partial(w, len) ==
    LET t == w.peeked_token
    IN  IF t.type = "Whitespace"
        THEN [w EXCEPT !.peeked_token =
                           Tok("Whitespace", t.n - len, skip_chars(t.str, len)),
                       !.ret = NoToken]
        ELSE [w EXCEPT !.peeked_token = Tok("Word", 0, skip_chars(t.str, len)),
                       !.ret = NoToken]

new_line_drops_peeked(w) ==
    [w EXCEPT !.peeked_len = 0, !.peeked_token = NoToken,
              !.middleware = hook_note(w.middleware),
              !.lookahead = hook_note(w.middleware),
              !.ret = NoToken, !.filled = "empty"]

new_line(w) ==
    IF w.wrapper = "MiddlewareWrapper"
    THEN [w EXCEPT !.peeked_len = 0, !.peeked_token = NoToken,
                   !.middleware = hook_note(w.middleware),
                   !.lookahead = hook_note(w.middleware),
                   !.ret = NoToken, !.filled = "empty"]
    ELSE [w EXCEPT !.middleware = hook_note(w.middleware), !.ret = NoToken]

on_start_render(w) ==
    [w EXCEPT !.peeked_len = 0, !.peeked_token = NoToken,
              !.middleware = hook_note(w.middleware), !.ret = NoToken,
              !.filled = "empty"]

\* post_render: the draw target's result is not modelled.
post_render(w) ==
    IF w.wrapper = "MiddlewareWrapper"
    THEN [w EXCEPT !.lookahead = hook_note(w.lookahead), !.ret = NoToken]
    ELSE [w EXCEPT !.middleware = hook_note(w.middleware), !.ret = NoToken]

\* A call of a method of the wrapper by its owner, as mw records it: the
\* method, its token argument and its len argument.
CalledWith(op, arg, len, w) ==
    [w EXCEPT !.op = op, !.arg = arg, !.len = len, !.steps = mw.steps + 1]

Called(op, arg, w) == CalledWith(op, arg, 0, w)

layout == <<text, mode, inner, tokens, lep, elements, result, exit, iters, lines, failing>>

\* The tokens the owner hands to render_token.
Handed == {Tok("Word", 0, <<"a">>), Tok("Whitespace", 1, <<"SP">>)}

\* What the owner puts back: the rest of the cached Word or Whitespace after
\* its first character, with a length of its choice (the bytes of the part it
\* took or of the part it puts back).
PutBack(w) ==
    LET t == w.peeked_token
    IN  IF t.type = "Word" /\ Len(t.str) > 1
        THEN {[len |-> len, token |-> Tok("Word", 0, Tail(t.str))] :
                 len \in {Utf8Len(Head(t.str)), ByteLen(Tail(t.str))}}
        ELSE IF t.type = "Whitespace" /\ t.n > 1
        THEN {[len |-> len, token |-> Tok("Whitespace", t.n - 1, Tail(t.str))] :
                 len \in {Utf8Len(Head(t.str)), ByteLen(Tail(t.str))}}
        ELSE {}

SetState ==
    /\ mw.steps < MaxSteps
    /\ \E state \in ProcessingState :
          mw' = Called("set_state", NoToken, set_state(mw, state))
    /\ UNCHANGED layout

RenderToken ==
    /\ mw.steps < MaxSteps
    /\ \E token \in Handed :
          mw' = Called("render_token", token, render_token(mw, token))
    /\ UNCHANGED layout

PeekToken ==
    /\ mw.steps < MaxSteps
    /\ mw' = Called("peek_token", NoToken, peek_token(mw))
    /\ UNCHANGED layout

ConsumePeekedToken ==
    /\ mw.steps < MaxSteps
    /\ mw' = Called("consume_peeked_token", NoToken, consume_peeked_token(mw))
    /\ UNCHANGED layout

ReplacePeekedToken ==
    /\ mw.steps < MaxSteps
    /\ mw.wrapper = "MiddlewareWrapper"
    /\ \E r \in PutBack(mw) :
          mw' = CalledWith("replace_peeked_token", r.token, r.len,
                           replace_peeked_token(mw, r.len, r.token))
    /\ UNCHANGED layout

\* The owner takes the first len characters of the cached Whitespace or Word.
ConsumePartial ==
    /\ mw.steps < MaxSteps
    /\ mw.wrapper = "PluginWrapper"
    /\ mw.peeked_token.type \in {"Whitespace", "Word"}
    /\ \E len \in 0..Len(mw.peeked_token.str) :
          mw' = CalledWith("consume_partial", NoToken, len, consume_partial(mw, len))
    /\ UNCHANGED layout

NewLine ==
    /\ mw.steps < MaxSteps
    /\ mw' = Called("new_line", NoToken, new_line(mw))
    /\ UNCHANGED layout

OnStartRender ==
    /\ mw.steps < MaxSteps
    /\ mw' = Called("on_start_render", NoToken, on_start_render(mw))
    /\ UNCHANGED layout

\* A method the render_token hook calls on the wrapper it runs under.
Nested(w) == {peek_token(w), consume_peeked_token(w)}

\* What a call of render_token in Render state leaves when the hook makes the
\* nested call that left n.  MiddlewareWrapper: render_token holds the
\* RefCell's borrow_mut() while the hook runs and the nested borrow_mut()
\* panics.  PluginWrapper: inner() hands out a second &mut to the UnsafeCell
\* without a check, which is undefined behaviour: the nested writes are kept,
\* or are lost to the outer access writing back what it held (the source
\* Parser is another object and keeps its position).
reentered(w, token, n) ==
    IF w.wrapper = "MiddlewareWrapper"
    THEN {[w EXCEPT !.op = "panic", !.arg = token, !.ret = NoToken,
                    !.steps = MaxSteps]}
    ELSE {[o EXCEPT !.op = "reentered", !.arg = token, !.len = 0,
                    !.steps = w.steps + 1] :
             o \in {render_token(n, token),
                    [render_token(w, token) EXCEPT !.source = n.source]}}

\* A call of render_token whose hook calls back into the wrapper.
Reenter ==
    /\ mw.steps < MaxSteps
    /\ mw.state = "Render"
    /\ \E token \in Handed, n \in Nested(mw) : mw' \in reentered(mw, token, n)
    /\ UNCHANGED layout

PipelineTexts == {t \in Texts : Len(t) <= MaxLen - 1}

InitPipeline ==
    /\ text \in PipelineTexts
    /\ mode = "pipeline"
    /\ inner = 0
    /\ tokens = <<>>
    /\ lep = new(0, MaxWidth, "Left")
    /\ elements = <<>>
    /\ result = "None"
    /\ exit = "None"
    /\ iters = 0
    /\ lines = <<>>
    /\ failing = 0
    /\ \E wrapper \in Wrappers, hook \in Hooks : mw = wrapper_new(wrapper, hook)

NextPipeline ==
    \/ SetState
    \/ RenderToken
    \/ PeekToken
    \/ ConsumePeekedToken
    \/ ReplacePeekedToken
    \/ ConsumePartial
    \/ Reenter
    \/ NewLine
    \/ OnStartRender

SpecPipeline == InitPipeline /\ [][NextPipeline]_vars

\* The wrapper through the lines of a text: its owner also reports what was
\* drawn (post_render), and the render_token hook does not call back.
PostRender ==
    /\ mw.steps < MaxSteps
    /\ mw' = Called("post_render", NoToken, post_render(mw))
    /\ UNCHANGED layout

LifecycleTexts == UNION {[1..n -> {"a", "SP", "NL", SPEC_CHAR_NBSP}] : n \in 0..(MaxLen - 1)}

InitLifecycle ==
    /\ text \in LifecycleTexts
    /\ mode = "pipeline"
    /\ inner = 0
    /\ tokens = <<>>
    /\ lep = new(0, MaxWidth, "Left")
    /\ elements = <<>>
    /\ result = "None"
    /\ exit = "None"
    /\ iters = 0
    /\ lines = <<>>
    /\ failing = 0
    /\ \E wrapper \in Wrappers, hook \in Hooks : mw = wrapper_new(wrapper, hook)

NextLifecycle ==
    \/ SetState
    \/ RenderToken
    \/ PeekToken
    \/ ConsumePeekedToken
    \/ ReplacePeekedToken
    \/ ConsumePartial
    \/ NewLine
    \/ OnStartRender
    \/ PostRender

SpecLifecycle == InitLifecycle /\ [][NextLifecycle]_vars

\* ------------------------------------------------------------- the layout behind a wrapper
\* The line layout of one text in the two phases: process pulls its tokens
\* through a MiddlewareWrapper around NoMiddleware that its owner left in
\* Measure state or switched to Render state.
next_token_in_render_only(w, string) ==
    IF w.state = "Render"
    THEN LET h == hook_next_token(w.lookahead, string)
         IN  [tok |-> h.tok, len |-> h.len]
    ELSE [tok |-> NoToken, len |-> 0]

\* MiddlewareWrapper::next_token(&mut lookahead), as peek_next_token calls it:
\* one token pulled from the Parser through the modifier's next_token hook.
next_token(w, string) ==
    LET h == hook_next_token(w.lookahead, string)
    IN  [tok |-> h.tok, len |-> h.len]

\* peek_next_token with the wrapper w: the token, and self after it.
peek_next_token(w) == next_token(w, DropBytes(text, lep.lookahead))

PeekedIn(w) ==
    [lep EXCEPT !.parser = lep.lookahead,
                !.lookahead = lep.lookahead + peek_next_token(w).len]

\* One iteration of the loop of process with the wrapper w.
process(w) ==
    LET token == peek_next_token(w).tok
        self == PeekedIn(w)
    IN  CASE token.type = "Whitespace" -> WhitespaceArm(self, token.n, token.str)
          [] token.type = "Tab" -> TabArm(self)
          [] token.type = "Break" -> BreakArm(self, HyphenGlyph)
          [] token.type = "Word" -> WordArm(self, token.str)
          [] token.type = "EscapeSequence" -> EscapeSequenceArm(self, token.n, token.str)
          [] token.type = "CarriageReturn" -> CarriageReturnArm(self)
          [] token.type = "NewLine" -> NewLineArm(self)
          [] OTHER -> EndArm(self)

Process ==
    /\ mode = "process"
    /\ mw.wrapper = "MiddlewareWrapper"
    /\ Apply(process(mw))

InitPhases ==
    /\ text \in Texts
    /\ mode = "process"
    /\ inner = 0
    /\ tokens = <<>>
    /\ \E width \in 0..MaxWidth, alignment \in HorizontalAlignment :
           lep = new(0, width, alignment)
    /\ elements = <<>>
    /\ result = "None"
    /\ exit = "None"
    /\ iters = 0
    /\ lines = <<>>
    /\ failing = 0
    /\ \E state \in ProcessingState :
           mw = set_state(wrapper_new("MiddlewareWrapper", "default"), state)

NextPhases ==
    \/ Process
    \/ StartLine

SpecPhases == InitPhases /\ [][NextPhases]_vars

\* ------------------------------------------------------------- claims
\* The text a token stands for.  A Word carries its span; NewLine and
\* CarriageReturn are one character each; Whitespace(n) carries no span, only
\* the count n, which every consumer reads as n space characters
\* (TextBoxStyle::measure_text measures ' ' n times).
RawSpan(tok) ==
    CASE tok.type = "Word" -> tok.str
      [] tok.type = "NewLine" -> <<"NL">>
      [] tok.type = "CarriageReturn" -> <<"CR">>
      [] tok.type = "Whitespace" -> Repeat("SP", tok.n)
      [] OTHER -> <<>>

RECURSIVE Concat(_)
Concat(toks) == IF toks = <<>> THEN <<>> ELSE RawSpan(Head(toks)) \o Concat(Tail(toks))

\* C1: tokenizer round trip.  Once Parser::next has returned None, the
\* concatenation of the raw spans of the tokens it returned, in order, is the
\* original text.
C1_RoundTrip == mode = "collected" => Concat(tokens) = text

\* ------------------------------------------------------------- the line layout claims
\* The width left on the line.
Remaining == lep.cursor.width - lep.cursor.position

\* The line holds a word already: a printed run other than a hyphen glyph.
LineHasWord ==
    \E i \in 1..Len(elements) :
        elements[i].kind = "printed_characters" /\ elements[i].st # HyphenGlyph

\* process is about to lay out a Word / a Break.
AtWord == mode = "process" /\ Peek.tok.type = "Word"
AtBreak == mode = "process" /\ Peek.tok.type = "Break"

\* process has returned from the place `where` and the caller starts the
\* next line in this step.
Resumes(where) == mode = "returned" /\ exit = where /\ mode' = "process"

\* The line of the current (or last) process call started here.
CurStart == IF mode = "returned" THEN lines[Len(lines)].start ELSE LineStart

\* C2: no infinite loop.  A process call runs its loop at most once per
\* byte left in the text and once more; a line that ends with LineBreak has
\* advanced the parser by at least one whole character; so the calls made
\* line after line number at most one per byte of the text and one more.
C2_NoInfiniteLoop ==
    /\ iters <= ByteLen(text) - CurStart + 1
    /\ Len(lines) <= ByteLen(text) + 1
    /\ \A i \in 1..Len(lines) :
           lines[i].result = "LineBreak" =>
               LET rest == DropBytes(text, lines[i].start)
               IN  /\ rest # <<>>
                   /\ lines[i].end - lines[i].start >= Utf8Len(Head(rest))
                   /\ IsCharBoundary(rest, lines[i].end - lines[i].start)

\* A text laid out to its end in a line of width 0, where no character fits.
C2_Witness ==
    /\ mode = "returned" /\ result = "EndOfText" /\ lep.cursor.width = 0
    /\ \E i \in 1..Len(lines) : lines[i].exit = "NoFit"

\* C3: word-level wrap.  A Word that does not fit in the width left on a
\* line that holds a word already makes process return LineBreak with no
\* event for it and the parser left at its start; the first token the next
\* process call peeks is that whole Word.
C3_WordWrap ==
    [][ /\ (AtWord /\ LineHasWord /\ str_width(Peek.tok.str) > Remaining) =>
              /\ mode' = "returned" /\ result' = "LineBreak"
              /\ elements' = elements
              /\ lep'.parser = lep.lookahead
        /\ Resumes("WordWrap") =>
              /\ lines[Len(lines)].token.type = "Word"
              /\ Peek'.tok = lines[Len(lines)].token
      ]_vars

\* A line that ended by word wrap.
C3_Witness == mode = "returned" /\ exit = "WordWrap" /\ elements # <<>>

\* The events the step of process emitted.
NewElements == SubSeq(elements', Len(elements) + 1, Len(elements'))

\* The characters a sequence of events of one word stands for: a printed
\* run for its text, a whitespace event for a non-breaking space.
RECURSIVE Spell(_)
Spell(evs) ==
    IF evs = <<>> THEN <<>>
    ELSE (IF Head(evs).kind = "printed_characters" THEN Head(evs).st
          ELSE IF Head(evs).kind = "whitespace" THEN <<SPEC_CHAR_NBSP>>
          ELSE <<>>) \o Spell(Tail(evs))

\* The longest prefix of w, in whole characters, that is at most `room` wide.
LongestPrefix(w, room) ==
    LET k == CHOOSE n \in 0..Len(w) :
                 /\ str_width(SubSeq(w, 1, n)) <= room
                 /\ n < Len(w) => str_width(SubSeq(w, 1, n + 1)) > room
    IN  SubSeq(w, 1, k)

\* The Word at hand does not fit a line that holds no word, and at least its
\* first character does.
CharWrapCase ==
    /\ AtWord /\ ~LineHasWord
    /\ str_width(Peek.tok.str) > Remaining
    /\ LongestPrefix(Peek.tok.str, Remaining) # <<>>

\* C4 as claimed: character-level wrap emits exactly one printed run, the
\* longest prefix that fits, advances the parser by the bytes of that prefix,
\* returns LineBreak, and the next line starts with the remainder.
C4_CharWrapOneRun ==
    [][ /\ CharWrapCase =>
              LET prefix == LongestPrefix(Peek.tok.str, Remaining)
              IN  /\ mode' = "returned" /\ result' = "LineBreak"
                  /\ NewElements = <<PrintedCharacters(prefix, str_width(prefix))>>
                  /\ lep'.parser = lep.lookahead + ByteLen(prefix)
        /\ Resumes("CharWrap") =>
              /\ Peek'.tok.type = "Word"
              /\ lep'.lookahead = lines[Len(lines)].end
      ]_vars

\* C4 as amended: character-level wrap emits the longest prefix that fits in
\* the width left, as one printed run when the prefix holds no non-breaking
\* space and otherwise as printed runs and single-space whitespace events
\* that spell it, advances the parser by the bytes of that prefix, returns
\* LineBreak, and the next line starts with the remainder of the word.
C4_CharWrap ==
    [][ /\ CharWrapCase =>
              LET prefix == LongestPrefix(Peek.tok.str, Remaining)
              IN  /\ mode' = "returned" /\ result' = "LineBreak"
                  /\ Spell(NewElements) = prefix
                  /\ \A i \in 1..Len(NewElements) :
                         /\ NewElements[i].kind \in {"printed_characters", "whitespace"}
                         /\ NewElements[i].kind = "whitespace" => NewElements[i].count = 1
                  /\ (\A i \in 1..Len(prefix) : prefix[i] # SPEC_CHAR_NBSP) =>
                         NewElements = <<PrintedCharacters(prefix, str_width(prefix))>>
                  /\ lep'.parser = lep.lookahead + ByteLen(prefix)
        /\ Resumes("CharWrap") =>
              /\ Peek'.tok.type = "Word"
              /\ lep'.lookahead = lines[Len(lines)].end
              /\ \E k \in 1..(Len(lines[Len(lines)].token.str) - 1) :
                     Peek'.tok.str = SubSeq(lines[Len(lines)].token.str, k + 1,
                                            Len(lines[Len(lines)].token.str))
      ]_vars

\* A line ended by character-level wrap, the parser inside the word.
C4_Witness ==
    /\ mode = "returned" /\ exit = "CharWrap"
    /\ Len(elements) = 1 /\ elements[1].kind = "printed_characters"
    /\ Len(elements[1].st) = 2

\* C5: degenerate width.  When the line holds no word and not even the first
\* character of the Word fits in the width left, process consumes the whole
\* Word, emits nothing for it and returns the value LineBreak.
C5_Degenerate ==
    [][ (AtWord /\ ~LineHasWord /\ total_char_width(Head(Peek.tok.str)) > Remaining) =>
            /\ mode' = "returned" /\ result' = "LineBreak"
            /\ elements' = elements
            /\ lep'.parser = lep.lookahead + ByteLen(Peek.tok.str)
      ]_vars

\* A line of width 0 that ended by consuming a Word without printing it.
C5_Witness ==
    /\ mode = "returned" /\ exit = "NoFit" /\ elements = <<>>
    /\ lines[Len(lines)].end > lines[Len(lines)].start

\* The token after the Break at hand.
FollowingTok == NextToken(DropBytes(text, lep.lookahead + Peek.len)).tok

HyphenRun == PrintedCharacters(HyphenGlyph, str_width(HyphenGlyph))

\* The Break at hand follows a word of the line and the Word after it does
\* not fit in the width left.
BreakNeeded ==
    /\ AtBreak /\ LineHasWord
    /\ FollowingTok.type = "Word"
    /\ str_width(FollowingTok.str) > Remaining

\* The line l ended at a Break it left unconsumed.
Deferred(l) ==
    /\ l.exit = "Break" /\ l.token.type = "Break"
    /\ NextToken(DropBytes(text, l.end)).tok.type = "Break"

\* C6: soft hyphen taken.  When a Break follows a word of the line, the Word
\* after it does not fit in the width left and the hyphen glyph does, process
\* emits the hyphen glyph as a printed run after the events of the line,
\* consumes the Break and returns LineBreak; the next call starts with the
\* Word that followed the Break.
C6_SoftHyphenTaken ==
    [][ /\ (BreakNeeded /\ str_width(HyphenGlyph) <= Remaining) =>
              /\ mode' = "returned" /\ result' = "LineBreak"
              /\ elements' = Append(elements, HyphenRun)
              /\ lep'.parser = lep.lookahead + Peek.len
              /\ NextToken(DropBytes(text, lep'.parser)).tok = FollowingTok
        /\ (Resumes("Break") /\ ~Deferred(lines[Len(lines)])) =>
              /\ Peek'.tok.type = "Word"
              /\ lep'.lookahead = lines[Len(lines)].end
      ]_vars

\* A line that ended with the hyphen glyph after a word, the Break consumed.
C6_Witness ==
    /\ mode = "returned" /\ exit = "Break" /\ result = "LineBreak"
    /\ Len(elements) >= 2
    /\ elements[Len(elements)] = HyphenRun
    /\ ~Deferred(lines[Len(lines)])

\* The Break at hand is the one the previous line ended at and deferred.
DeferredHere ==
    /\ lines # <<>> /\ Deferred(lines[Len(lines)])
    /\ lep.lookahead = lines[Len(lines)].end

\* C7: a hyphen glyph is printed for a Break only if the line breaks at that
\* Break (the line ends there, or the previous line ended there and left the
\* glyph to this one); when the Word after the Break fits in the width left,
\* the Break emits no event and adds no width, wherever the Break stands.
C7_HyphenOnlyAtBreak ==
    [][ AtBreak =>
          /\ elements' # elements =>
                \/ mode' = "returned" /\ result' = "LineBreak"
                \/ DeferredHere
          /\ (~DeferredHere /\ FollowingTok.type = "Word"
                 /\ str_width(FollowingTok.str) <= Remaining) =>
                /\ elements' = elements
                /\ lep'.cursor.position = lep.cursor.position
                /\ mode' = "process"
      ]_vars

\* C8: when a break must be taken at a Break but the hyphen glyph does not
\* fit in the width left, the line ends with LineBreak, prints no glyph and
\* does not consume the Break; the next line prints the hyphen glyph first
\* and then the Word that came after the Break (a Word whose first character
\* fits the line width at all).
C8_HyphenDeferred ==
    [][ /\ (BreakNeeded /\ str_width(HyphenGlyph) > Remaining) =>
              /\ mode' = "returned" /\ result' = "LineBreak"
              /\ elements' = elements
              /\ lep'.parser = lep.lookahead
        /\ (lines' # lines /\ lines # <<>> /\ Deferred(lines[Len(lines)])) =>
              LET w == NextToken(DropBytes(text, lines[Len(lines)].end
                           + Utf8Len("SHY"))).tok.str
              IN  total_char_width(Head(w)) <= lep.cursor.width =>
                     /\ Len(elements') >= 2
                     /\ elements'[1] = HyphenRun
                     /\ elements'[2].kind = "printed_characters"
                     /\ elements'[2].st # <<>>
                     /\ elements'[2].st = SubSeq(w, 1, Len(elements'[2].st))
      ]_vars

\* The byte offset of the k-th character of the text.
OffsetOf(k) == ByteLen(SubSeq(text, 1, k - 1))

HasNbsp(w) == \E i \in 1..Len(w) : w[i] = SPEC_CHAR_NBSP

\* C9 as claimed: for two glyphs joined by a non-breaking space and a line
\* width that fits the first glyph but not the three characters, no line
\* ends between the glyphs: neither before nor after the non-breaking space.
C9_NbspNeverSplits ==
    \A k \in 2..(Len(text) - 1) :
        ( /\ text[k] = SPEC_CHAR_NBSP
          /\ text[k - 1] \in Glyphs /\ text[k + 1] \in Glyphs
          /\ lep.cursor.width >= str_width(<<text[k - 1]>>)
          /\ lep.cursor.width < str_width(SubSeq(text, k - 1, k + 1)) ) =>
        \A i \in 1..Len(lines) :
            lines[i].end \notin {OffsetOf(k), OffsetOf(k + 1)}

\* C9 as amended: a non-breaking space is never a word-wrap point.  A Word
\* holding one is laid out whole on the line when it fits in the width left;
\* it moves whole to the next line when it does not fit a line that holds a
\* word already; and a line ends inside it only by the character-level wrap
\* of a word that does not fit the width left on a line holding no word.
C9_NbspNoWordWrap ==
    [][ (AtWord /\ HasNbsp(Peek.tok.str)) =>
          LET w == Peek.tok.str
          IN  /\ str_width(w) <= Remaining =>
                    /\ mode' = "process"
                    /\ Spell(NewElements) = w
              /\ (str_width(w) > Remaining /\ LineHasWord) =>
                    /\ mode' = "returned" /\ result' = "LineBreak"
                    /\ elements' = elements
                    /\ lep'.parser = lep.lookahead
              /\ ( /\ mode' = "returned"
                   /\ lep'.parser > lep.lookahead
                   /\ lep'.parser < lep.lookahead + ByteLen(w) ) =>
                    /\ ~LineHasWord
                    /\ str_width(w) > Remaining
                    /\ Spell(NewElements) = LongestPrefix(w, Remaining)
      ]_vars

\* A Word holding a non-breaking space that moved whole to the next line.
C9_Witness ==
    /\ mode = "returned" /\ exit = "WordWrap"
    /\ HasNbsp(lines[Len(lines)].token.str)
    /\ \E i \in 1..Len(text) : text[i] \in {"SP", "SHY"}

\* The events of a Word: one printed run for each non-empty piece without a
\* non-breaking space, one single-unit whitespace event for each
\* non-breaking space.
RECURSIVE NbspEvents(_, _)
NbspEvents(w, space_width) ==
    IF w = <<>> THEN <<>>
    ELSE IF Head(w) = SPEC_CHAR_NBSP
    THEN <<Whitespace(1, space_width)>> \o NbspEvents(Tail(w), space_width)
    ELSE LET piece == TakeIn(w, Alphabet \ {SPEC_CHAR_NBSP})
         IN  <<PrintedCharacters(piece, str_width(piece))>>
                 \o NbspEvents(SubSeq(w, Len(piece) + 1, Len(w)), space_width)

\* C10: for a Word that fits in the width left, process_word emits, in source
\* order, one printed run for each non-empty piece free of non-breaking
\* spaces and one whitespace event of count 1 and one space unit's width for
\* each non-breaking space, and nothing else: no printed run is empty.
C10_NbspEvents ==
    [][ (AtWord /\ str_width(Peek.tok.str) <= Remaining) =>
            /\ NewElements = NbspEvents(Peek.tok.str, lep.spaces.width)
            /\ \A i \in 1..Len(NewElements) :
                   NewElements[i].kind = "printed_characters" => NewElements[i].st # <<>>
      ]_vars

\* process is about to lay out a Tab / a Whitespace run.
AtTab == mode = "process" /\ Peek.tok.type = "Tab"
AtWhitespace == mode = "process" /\ Peek.tok.type = "Whitespace"

\* The smallest multiple of the tab pitch strictly greater than x.
NextStop(x) == CHOOSE s \in (x + 1)..(x + TabPitch) : s % TabPitch = 0

\* The token at hand is leading whitespace that the alignment suppresses.
SuppressedLeading == ~LineHasWord /\ lep.alignment # "Left"

\* The step emitted exactly one whitespace or cursor-move event, `by` wide,
\* and moved the cursor by as much.
AdvancedBy(by) ==
    /\ Len(NewElements) = 1
    /\ NewElements[1].kind \in {"whitespace", "move_cursor"}
    /\ NewElements[1].width = by
    /\ lep'.cursor.position = lep.cursor.position + by

RunWidth == space_width_of(lep.spaces, Peek.tok.n)

\* A whitespace run that fits, on a line that holds no word.
LeadingRun == AtWhitespace /\ ~LineHasWord /\ RunWidth <= Remaining

\* C12 as claimed: a leading whitespace run is one whitespace event of its
\* width with Left alignment, and one cursor-move event of its width with
\* Center, Right or Justified alignment.
C12_LeadingWhitespace ==
    [][ LeadingRun =>
            IF lep.alignment = "Left"
            THEN NewElements = <<Whitespace(Peek.tok.n, RunWidth)>>
            ELSE NewElements = <<MoveCursorEvent(RunWidth)>>
      ]_vars

\* C12 as amended: a leading whitespace run is one whitespace event of its
\* count and width with Left alignment, the cursor moved by that width; with
\* Center, Right or Justified alignment the run is skipped: no event at all,
\* and the cursor stays where it is.
C12_LeadingWhitespaceEaten ==
    [][ LeadingRun =>
            /\ mode' = "process"
            /\ lep'.lookahead = lep.lookahead + Peek.len
            /\ IF lep.alignment = "Left"
               THEN /\ NewElements = <<Whitespace(Peek.tok.n, RunWidth)>>
                    /\ lep'.cursor.position = lep.cursor.position + RunWidth
               ELSE /\ elements' = elements
                    /\ lep'.cursor.position = lep.cursor.position
      ]_vars

\* A leading run was skipped under an alignment other than Left.
C12_Witness ==
    /\ lep.alignment # "Left" /\ lep.cursor.width >= 1
    /\ text # <<>> /\ text[1] = "SP"
    /\ mode = "process" /\ lines = <<>> /\ lep.lookahead >= 1
    /\ elements = <<>> /\ lep.cursor.position = 0

\* Starting at position pos, the whitespace runs and tabs at the head of
\* string and the Word after them end within the line width; FALSE when
\* something else than a Word comes after them.
RECURSIVE GapAndWordFit(_, _)
GapAndWordFit(string, pos) ==
    LET r == NextToken(string)
    IN  CASE r.tok.type = "Whitespace" ->
               GapAndWordFit(DropBytes(string, r.len),
                             pos + r.tok.n * str_width(<<"SP">>))
          [] r.tok.type = "Tab" ->
               GapAndWordFit(DropBytes(string, r.len), NextStop(pos))
          [] r.tok.type = "Word" -> pos + str_width(r.tok.str) <= lep.cursor.width
          [] OTHER -> FALSE

\* The same, a Break after the gap counting as its hyphen glyph.
RECURSIVE GapAndWordOrBreakFit(_, _)
GapAndWordOrBreakFit(string, pos) ==
    LET r == NextToken(string)
    IN  CASE r.tok.type = "Whitespace" ->
               GapAndWordOrBreakFit(DropBytes(string, r.len),
                                    pos + r.tok.n * str_width(<<"SP">>))
          [] r.tok.type = "Tab" ->
               GapAndWordOrBreakFit(DropBytes(string, r.len), NextStop(pos))
          [] r.tok.type = "Word" -> pos + str_width(r.tok.str) <= lep.cursor.width
          [] r.tok.type = "Break" -> pos + str_width(HyphenGlyph) <= lep.cursor.width
          [] OTHER -> FALSE

\* The width and the space count of the whitespace run or tab at hand.
GapWidth ==
    IF Peek.tok.type = "Tab" THEN NextStop(lep.cursor.position) - lep.cursor.position
    ELSE RunWidth
GapCount == IF Peek.tok.type = "Tab" THEN 1 ELSE Peek.tok.n

\* A whitespace run or tab that fits entirely, on a line that holds a word.
InnerGap == (AtWhitespace \/ AtTab) /\ LineHasWord /\ GapWidth <= Remaining

\* C13 as claimed: on a line that holds a word, a whitespace run or tab that
\* fits is a whitespace event if the next Word, with the whitespace and tabs
\* before it, still fits on the line, and a cursor-move event of the same
\* width if not.
C13_TrailingWhitespace ==
    [][ InnerGap =>
            /\ NewElements =
                  IF GapAndWordFit(DropBytes(text, lep.lookahead), lep.cursor.position)
                  THEN <<Whitespace(GapCount, GapWidth)>>
                  ELSE <<MoveCursorEvent(GapWidth)>>
            /\ lep'.cursor.position = lep.cursor.position + GapWidth
      ]_vars

\* C13 as amended: on a line that holds a word, a whitespace run or tab that
\* fits is a whitespace event if what comes after the whitespace and tabs is
\* a Word, or a Break counted as its hyphen glyph, that still fits on the
\* line with them, and a cursor-move event of the same width if not.
C13_TrailingWhitespaceOrBreak ==
    [][ InnerGap =>
            /\ NewElements =
                  IF GapAndWordOrBreakFit(DropBytes(text, lep.lookahead), lep.cursor.position)
                  THEN <<Whitespace(GapCount, GapWidth)>>
                  ELSE <<MoveCursorEvent(GapWidth)>>
            /\ lep'.cursor.position = lep.cursor.position + GapWidth
      ]_vars

\* A run after a word became a cursor move, the next word went to the next
\* line.
C13_Witness ==
    /\ mode = "returned" /\ exit = "WordWrap"
    /\ Len(elements) >= 2
    /\ elements[Len(elements)].kind = "move_cursor"
    /\ elements[Len(elements)].width >= 1

\* C14: a whitespace run that fits only partially in the width left: process
\* emits a whitespace event for the whole space units that fit, leaves the
\* rest of the run pending for the next line and ends the line.
C14_PartialWhitespace ==
    [][ (AtWhitespace /\ ~SuppressedLeading /\ RunWidth > Remaining) =>
            LET single == str_width(<<"SP">>)
                fit == Remaining \div single
            IN  /\ NewElements = IF fit > 0 THEN <<Whitespace(fit, fit * single)>> ELSE <<>>
                /\ mode' = "returned" /\ result' = "LineBreak"
                /\ lep'.parser = lep.lookahead + fit * Utf8Len("SP")
      ]_vars

\* The text process has not looked at yet.
Unread == DropBytes(text, lep.lookahead)

\* C15: line-end classification.  process returns NewLine exactly when the
\* token it ends on is a newline and CarriageReturn exactly when it is a
\* carriage return, the parser left right after that character; EndOfText
\* exactly when there is no token left; and LineBreak whenever the line ends
\* otherwise.  A newline, a carriage return and the end of the tokens always
\* end the line.
C15_LineEnd ==
    [][ mode = "process" =>
          /\ (Unread = <<>>) => (mode' = "returned" /\ result' = "EndOfText")
          /\ (Unread # <<>> /\ Head(Unread) \in {"NL", "CR"}) => mode' = "returned"
          /\ mode' = "returned" =>
                /\ result' = "EndOfText" <=> Unread = <<>>
                /\ result' = "NewLine" <=> (Unread # <<>> /\ Head(Unread) = "NL")
                /\ result' = "CarriageReturn" <=> (Unread # <<>> /\ Head(Unread) = "CR")
                /\ result' = "LineBreak" <=> (Unread # <<>> /\ Head(Unread) \notin {"NL", "CR"})
                /\ result' \in {"NewLine", "CarriageReturn"} =>
                       lep'.parser = lep.lookahead + Utf8Len(Head(Unread))
                /\ result' = "EndOfText" => lep'.parser = ByteLen(text)
      ]_vars

\* A text laid out to its end with lines that ended on a newline and on a
\* carriage return.
C15_Witness ==
    /\ mode = "returned" /\ result = "EndOfText"
    /\ \E i, j \in 1..Len(lines) :
           lines[i].result = "NewLine" /\ lines[j].result = "CarriageReturn"

Hooked(w) == IF w.wrapper = "MiddlewareWrapper" THEN w.lookahead ELSE w.middleware

\* The step is a peek_token that finds the cache empty.
FillingPeek == PeekToken /\ mw.peeked_token = NoToken

\* C17 (as stated): in Measure state every token handed to the line layout,
\* by render_token and by peek_token, is the token the tokenizer produced: no
\* hook alters, replaces, drops or injects one.
C17_MeasureUnmodified ==
    [][mw.state = "Measure" =>
          /\ RenderToken => mw'.ret = mw'.arg
          /\ FillingPeek => mw'.ret = NextToken(as_str(mw)).tok]_vars

\* C17 (amended): in Measure state render_token hands back the token it was
\* given and invokes no hook; peek_token hands out what the next_token hook
\* returns in Measure as in Render state, which is the tokenizer's token when
\* the hook is the default one.
C17_MeasureRenderUnmodified ==
    [][/\ mw.state = "Measure" /\ RenderToken =>
             mw'.ret = mw'.arg /\ Hooked(mw') = Hooked(mw)
       /\ FillingPeek =>
             /\ mw'.ret = hook_next_token(Hooked(mw), as_str(mw)).tok
             /\ Hooked(mw).hook = "default" => mw'.ret = NextToken(as_str(mw)).tok]_vars

\* A modifier that rewrites tokens was handed one in Measure state, after a
\* peek filled the cache.
C17_Witness ==
    /\ mw.wrapper # "None"
    /\ mw.state = "Measure"
    /\ mw.op = "render_token"
    /\ Hooked(mw).hook = "inject"
    /\ mw.peeked_token # NoToken
    /\ mw.ret = mw.arg

\* C18: a wrapper is in Measure state right after construction and changes
\* state only through set_state; in Measure state render_token returns the
\* token it was given without calling the modifier, in Render state it returns
\* the result of the modifier's render_token hook.
C18_StateAndRender ==
    /\ [](mw.op = "new" => mw.state = "Measure")
    /\ [][/\ mw'.state # mw.state => SetState
          /\ RenderToken /\ mw.state = "Measure" =>
                /\ mw'.ret = mw'.arg
                /\ mw'.lookahead = mw.lookahead /\ mw'.middleware = mw.middleware
          /\ RenderToken /\ mw.state = "Render" =>
                /\ mw'.ret = hook_render_token(Hooked(mw), mw'.arg).tok
                /\ Hooked(mw').rcalls = Hooked(mw).rcalls + 1]_vars

\* The wrapper was switched to Render state and then called the render_token
\* hook of a modifier that drops tokens, which returned None.
C18_Witness ==
    /\ mw.wrapper # "None"
    /\ mw.state = "Render"
    /\ mw.op = "render_token"
    /\ Hooked(mw).hook = "drop"
    /\ Hooked(mw).rcalls = 1
    /\ mw.ret = NoToken
    /\ mw.steps >= 3

\* C19: peek caching.  A peek_token that follows a peek_token, with no
\* consume or replace (or any other call) in between, returns the same token
\* and does not invoke the modifier's next_token hook, whatever the state of
\* the source, an exhausted source included.
C19_PeekCached ==
    [][PeekToken /\ mw.op = "peek_token" =>
          /\ mw'.ret = mw.ret
          /\ mw'.lookahead.calls = mw.lookahead.calls
          /\ mw'.middleware.calls = mw.middleware.calls]_vars

\* The bytes the next_token hook pulled when peek_token last called it.
Pulled == hook_next_token(mw.before, as_str(mw)).len

\* C20: MiddlewareWrapper::peek_token leaves the position of the
\* source unchanged; consume_peeked_token advances the source by the bytes
\* the hook pulled to produce the cached token and empties the cache, and by
\* 0 bytes when nothing is cached.
C20_PeekConsume ==
    [][mw.wrapper = "MiddlewareWrapper" =>
          /\ PeekToken => mw'.source = mw.source
          /\ ConsumePeekedToken =>
                /\ mw'.peeked_token = NoToken /\ mw'.peeked_len = 0
                /\ mw.peeked_token # NoToken /\ mw.filled = "peek" =>
                      mw'.source = mw.source + Pulled
                /\ mw.peeked_token = NoToken => mw'.source = mw.source]_vars

\* C21: partial consumption.  Taking the first k characters of a cached
\* Whitespace(count, span) leaves Whitespace(count - k, span without its first
\* k characters) cached, of a cached Word(w) leaves Word(w without its first k
\* characters); neither consume_partial nor replace_peeked_token invokes the
\* modifier's next_token hook or moves the source.
C21_PartialConsumption ==
    [][/\ ConsumePartial =>
             LET t == mw.peeked_token
                 k == mw'.len
                 rest == SubSeq(t.str, k + 1, Len(t.str))
             IN  /\ t.type = "Whitespace" =>
                        mw'.peeked_token = Tok("Whitespace", t.n - k, rest)
                 /\ t.type = "Word" => mw'.peeked_token = Tok("Word", 0, rest)
       /\ ReplacePeekedToken => mw'.peeked_token = mw'.arg
       /\ ConsumePartial \/ ReplacePeekedToken =>
             /\ mw'.lookahead.calls <= mw.lookahead.calls
             /\ mw'.middleware.calls = mw.middleware.calls
             /\ mw'.source = mw.source]_vars

\* One character of a two-character whitespace run was taken: one is left.
C21_Witness ==
    /\ mw.wrapper = "PluginWrapper"
    /\ mw.op = "consume_partial"
    /\ mw.len = 1
    /\ mw.peeked_token.type = "Whitespace"
    /\ mw.peeked_token.n = 1
    /\ Len(mw.peeked_token.str) = 1

\* C22: exclusive access.  A wrapper method entered while another access to
\* the wrapper's interior state is live (a hook calling back into the
\* wrapper) panics instead of letting both accesses change the state.
C22_ExclusiveAccess == [][Reenter => mw'.op = "panic"]_vars

\* The wrapper in the other processing state.
OtherPhase(w) == set_state(w, IF w.state = "Measure" THEN "Render" ELSE "Measure")

CharLen(tok) ==
    CASE tok.type = "Word" -> Len(tok.str)
      [] tok.type = "Whitespace" -> tok.n
      [] OTHER -> 1

\* The number of characters of the text before the i-th token returned.
RECURSIVE CharsBefore(_)
CharsBefore(i) == IF i <= 1 THEN 0 ELSE CharsBefore(i - 1) + CharLen(tokens[i - 1])

\* A whitespace character other than newline, carriage return and
\* non-breaking space.
Blank(c) == IsWhitespace(c) /\ c \notin {"NL", "CR", "NBSP"}

Wordy(c) == ~IsWhitespace(c) \/ c = SPEC_CHAR_NBSP

\* C25: a non-breaking space is a word character.  It is never counted in a
\* Whitespace token, and a maximal run of non-whitespace characters and
\* non-breaking spaces is returned as one Word.
C25_NbspInWord ==
    \A i \in 1..Len(tokens) :
        LET t == tokens[i]
            start == CharsBefore(i)
            end == start + CharLen(t)
        IN  /\ end <= Len(text)
            /\ \A j \in (start + 1)..end : text[j] = SPEC_CHAR_NBSP => t.type = "Word"
            /\ t.type = "Word" =>
                  /\ t.str = SubSeq(text, start + 1, end)
                  /\ \A j \in (start + 1)..end : Wordy(text[j])
                  /\ end < Len(text) => ~Wordy(text[end + 1])
                  /\ start > 0 => ~Wordy(text[start])

\* " <NBSP>a" was returned as Whitespace(1) and one Word.
C25_Witness ==
    /\ text = <<"SP", "NBSP", "a">>
    /\ tokens = <<Tok("Whitespace", 1, <<>>), Tok("Word", 0, <<"NBSP", "a">>)>>

\* C26: a soft hyphen interrupts the Word.  The text before it is returned
\* as a Word, the soft hyphen as a Break token of its own that carries the
\* hyphen glyph and the source span, the text after it as another Word: no
\* Word holds a soft hyphen.
C26_SoftHyphenBreak ==
    \A i \in 1..Len(tokens) :
        LET t == tokens[i]
            start == CharsBefore(i)
        IN  \A j \in (start + 1)..Min(start + CharLen(t), Len(text)) :
                text[j] = "SHY" =>
                    /\ t.type = "Break"
                    /\ t.str = HyphenGlyph

\* The first n characters of s are the string p.
StartsWith(s, p) == Len(p) <= Len(s) /\ SubSeq(s, 1, Len(p)) = p

\* C27: after any sequence of calls of next the unprocessed remainder starts
\* on a character boundary of the text, and the Word just returned is the
\* text between two character boundaries, the second of them the start of
\* the remainder: no multi-byte character is split, the last one of the text
\* included.
C27_CharBoundaries ==
    /\ inner <= ByteLen(text)
    /\ IsCharBoundary(text, inner)
    /\ result = "Some" /\ tokens[Len(tokens)].type = "Word" =>
          LET w == tokens[Len(tokens)].str
              from == inner - ByteLen(w)
          IN  /\ IsCharBoundary(text, from)
              /\ StartsWith(DropBytes(text, from), w)

\* A word that ends the text with a character of two bytes was returned whole
\* (the shape of test parse_multibyte_last).
C27_Witness ==
    /\ text = <<"a", "NBSP">>
    /\ tokens = <<Tok("Word", 0, <<"a", "NBSP">>)>>
    /\ inner = 3
    /\ result = "Some"

\* C28: the token sequence is finite.  A call of next returns None exactly
\* when is_empty() holds, that is when remaining() is 0; a call that returns
\* a token strictly decreases remaining(); after a None every later call
\* returns None.
C28_Finite ==
    [][Parser_next =>
          /\ is_empty <=> remaining = 0
          /\ result' = "None" <=> is_empty
          /\ result' = "Some" => remaining' < remaining
          /\ iters > 0 /\ result = "None" => result' = "None"]_vars

\* After two tokens the Parser returned None, and None again.
C28_Witness ==
    /\ mode = "calls"
    /\ Len(tokens) = 2
    /\ iters = 4
    /\ result = "None"

\* ------------------------------------------------------------- escape sequences
\* The place of the escape sequence of the text, in characters; 0 if none.
EscapeAt ==
    IF \E j \in 1..Len(text) : text[j] \in EscapeChars
    THEN CHOOSE j \in 1..Len(text) : text[j] \in EscapeChars
    ELSE 0

Glyph(c) == c \in {"a", "m"}

\* The word part that ends right before character j of the text, and the
\* word part that starts right after it.
RECURSIVE PartBefore(_)
PartBefore(j) ==
    IF j <= 1 \/ ~Glyph(text[j - 1]) THEN <<>> ELSE Append(PartBefore(j - 1), text[j - 1])

RECURSIVE PartAfter(_)
PartAfter(j) ==
    IF j >= Len(text) \/ ~Glyph(text[j + 1]) THEN <<>> ELSE <<text[j + 1]>> \o PartAfter(j + 1)

\* A style change stands in the middle of a word that is not wider than a
\* line.
StyledWord ==
    /\ EscapeAt > 0
    /\ text[EscapeAt] = "SGR"
    /\ PartBefore(EscapeAt) # <<>>
    /\ PartAfter(EscapeAt) # <<>>
    /\ str_width(PartBefore(EscapeAt) \o PartAfter(EscapeAt)) <= lep.cursor.width

\* The bytes of the text before its character j.
BytesBefore(j) == ByteLen(SubSeq(text, 1, j - 1))

\* C29: an inline style escape sequence in the middle of a word is no wrap
\* opportunity.  Unless the joined word is wider than a line, no line ends
\* between the start of the part before the escape sequence and the end of
\* the part after it, and the line that holds them has the style event.
C29_EscapeKeepsWord ==
    StyledWord =>
        LET from == BytesBefore(EscapeAt) - ByteLen(PartBefore(EscapeAt))
            to == BytesBefore(EscapeAt + 1) + ByteLen(PartAfter(EscapeAt))
        IN  \A k \in 1..Len(lines) :
                /\ ~(from < lines[k].end /\ lines[k].end < to)
                /\ lines[k].start <= from /\ to <= lines[k].end =>
                      \E i \in 1..Len(lines[k].elements) :
                          lines[k].elements[i].kind = "sgr"

\* The horizontal displacement a sequence of events reports to the event
\* consumer: the widths of its whitespace blocks plus its cursor-move deltas.
RECURSIVE Displacement(_)
Displacement(ev) ==
    IF ev = <<>> THEN 0
    ELSE (IF Head(ev).kind \in {"whitespace", "move_cursor"} THEN Head(ev).width ELSE 0)
         + Displacement(Tail(ev))

CursorMove == Peek.tok.type = "EscapeSequence" /\ Peek.tok.str \in {<<"CUF">>, <<"CUB">>}

\* C30: when process handles CursorForward(n) or CursorBackward(n), the
\* displacement reported by the events it emits equals the amount by which
\* the line cursor has moved, whether or not the full move of n space widths
\* fits; and when it fits, that amount is n space widths.
C30_CursorMoves ==
    [][ProcessEscapeSequence /\ CursorMove =>
          LET applied == lep'.cursor.position - lep.cursor.position
              requested == (IF Peek.tok.str = <<"CUF">> THEN 1 ELSE -1)
                              * (Peek.tok.n * str_width(<<"SP">>))
          IN  /\ Displacement(SubSeq(elements', Len(elements) + 1, Len(elements'))) = applied
              /\ move_cursor(lep.cursor, requested).ok => applied = requested]_vars

\* A run of characters laid out at character granularity from a row that is
\* used up to `used`: a character that does not fit on its row opens a new
\* row.  The rows opened and the use of the last row.
RECURSIVE SplitRows(_, _, _)
SplitRows(w, used, max_width) ==
    IF w = <<>> THEN [rows |-> 0, used |-> used]
    ELSE LET width == total_char_width(Head(w))
         IN  IF used + width <= max_width
             THEN SplitRows(Tail(w), used + width, max_width)
             ELSE LET r == SplitRows(Tail(w), width, max_width)
                  IN  [rows |-> r.rows + 1, used |-> r.used]

\* The rows of the greedy layout of one line: a word that fits after the
\* content of its row stays, a word that does not moves whole to a new row,
\* and a word wider than a row is split there at character granularity.
RECURSIVE GreedyRows(_, _, _)
GreedyRows(string, used, max_width) ==
    LET r == ParserNext(string)
        rest == DropBytes(string, r.len)
    IN  CASE r.tok = NoToken -> 1
          [] r.tok.type = "Word" ->
               LET w == r.tok.str
                   W == str_width(w)
               IN  IF used + W <= max_width THEN GreedyRows(rest, used + W, max_width)
                   ELSE IF used > 0 /\ W <= max_width THEN 1 + GreedyRows(rest, W, max_width)
                   ELSE LET sp == SplitRows(w, 0, max_width)
                        IN  (IF used > 0 THEN 1 ELSE 0) + sp.rows
                               + GreedyRows(rest, sp.used, max_width)
          [] r.tok.type = "Whitespace" ->
               LET sp == SplitRows([i \in 1..r.tok.n |-> "SP"], used, max_width)
               IN  sp.rows + GreedyRows(rest, sp.used, max_width)
          [] OTHER -> GreedyRows(rest, used, max_width)

RECURSIVE GreedyTotal(_, _)
GreedyTotal(ls, max_width) ==
    IF ls = <<>> THEN 0
    ELSE GreedyRows(Head(ls), 0, max_width) + GreedyTotal(Tail(ls), max_width)

\* Every character of the text is at most max_width wide.
CharsFit == \A i \in 1..Len(text) : total_char_width(text[i]) <= lep.cursor.width

OneWord == ParserNext(text).tok.type = "Word" /\ ParserNext(text).len = ByteLen(text)

\* C31: measure_text returns the character height times the number of rows
\* of the greedy layout of the newline-separated lines of the text (here for
\* the widths that fit every character of the text); so the empty text
\* measures 0, and a text that is one word measures one row when the word is
\* exactly max_width wide and two rows when it is one unit wider.
C31_MeasureText ==
    mode = "measured" /\ CharsFit =>
        /\ result = CharHeight * GreedyTotal(str_lines(text), lep.cursor.width)
        /\ text = <<>> => result = 0
        /\ OneWord /\ str_width(text) = lep.cursor.width => result = CharHeight
        /\ OneWord /\ str_width(text) = lep.cursor.width + 1 => result = 2 * CharHeight

\* The tokens the owner gets from w by peeking and consuming until peek_token
\* returns None, at most k of them.
RECURSIVE Stream(_, _)
Stream(w, k) ==
    LET p == peek_token(w)
    IN  IF k = 0 \/ p.ret = NoToken THEN <<>>
        ELSE <<p.ret>> \o Stream(consume_peeked_token(p), k - 1)

\* The cache of mw holds a token that peek_token put there (for
\* PluginWrapper: what consume_partial left of it).
PeekedNotConsumed == mw.peeked_token # NoToken /\ mw.filled = "peek"

\* The tokens of the text from byte `at` on.
RECURSIVE SourceTokens(_)
SourceTokens(at) ==
    LET r == NextToken(DropBytes(text, at))
    IN  IF r.tok = NoToken THEN <<>> ELSE <<r.tok>> \o SourceTokens(at + r.len)

\* C32: with a pass-through modifier, new_line notifies the modifier and
\* loses no input: a token that was peeked and not consumed is what the first
\* peek_token after new_line returns; the tokens the owner gets from then on
\* are those it would have got without new_line (after a peek or with nothing
\* cached), and for MiddlewareWrapper they are the tokens of the source from
\* its position on: none skipped, none returned twice.
C32_NewLineKeepsInput ==
    [][NewLine /\ Hooked(mw).hook = "default" =>
          /\ mw'.middleware.notes = mw.middleware.notes + 1
          /\ PeekedNotConsumed => peek_token(mw').ret = mw.peeked_token
          /\ mw.filled # "replace" =>
                Stream(mw', Len(text) + 1) = Stream(mw, Len(text) + 1)
          /\ mw.wrapper = "MiddlewareWrapper" =>
                Stream(mw', Len(text) + 1) = SourceTokens(mw.source)]_vars

\* new_line was called on a PluginWrapper with a pass-through modifier while
\* the Word that peek_token had pulled from the source was cached.
C32_Witness ==
    /\ mw.op = "new_line"
    /\ mw.wrapper = "PluginWrapper"
    /\ mw.middleware.hook = "default"
    /\ mw.middleware.notes = 1
    /\ mw.peeked_token.type = "Word" /\ mw.filled = "peek" /\ mw.source > 0

\* C33: in MiddlewareWrapper the lookahead is transactional.  peek_token,
\* render_token and post_render leave the committed modifier as it was; the
\* committed modifier changes only in consume_peeked_token, where it becomes
\* the lookahead copy, in new_line and in on_start_render;
\* replace_peeked_token and new_line make the lookahead a copy of the
\* committed modifier; so after consume, replace or new_line the two copies
\* are equal.
C33_Transactional ==
    [][mw.wrapper = "MiddlewareWrapper" =>
          /\ PeekToken \/ RenderToken \/ PostRender => mw'.middleware = mw.middleware
          /\ mw'.middleware # mw.middleware =>
                ConsumePeekedToken \/ NewLine \/ OnStartRender
          /\ ConsumePeekedToken => mw'.middleware = mw.lookahead
          /\ ReplacePeekedToken => mw'.lookahead = mw.middleware
          /\ ConsumePeekedToken \/ ReplacePeekedToken \/ NewLine =>
                mw'.lookahead = mw'.middleware]_vars

\* consume_peeked_token has committed a lookahead copy that a peek_token and
\* a render_token in Render state had changed.
C33_Witness ==
    /\ mw.wrapper = "MiddlewareWrapper"
    /\ mw.op = "consume_peeked_token"
    /\ mw.middleware.calls = 1 /\ mw.middleware.rcalls = 1
    /\ mw.middleware = mw.lookahead

\* The text of the printed runs among the events ev, without the hyphen
\* glyphs printed for Break tokens.
RECURSIVE PrintedText(_)
PrintedText(ev) ==
    IF ev = <<>> THEN <<>>
    ELSE (IF Head(ev).kind = "printed_characters" /\ Head(ev).st # HyphenGlyph
          THEN Head(ev).st ELSE <<>>) \o PrintedText(Tail(ev))

\* The text printed by the process calls that have returned, in order.
RECURSIVE PrintedLines(_)
PrintedLines(ls) ==
    IF ls = <<>> THEN <<>> ELSE PrintedText(Head(ls).elements) \o PrintedLines(Tail(ls))

IsGlyph(c) == c \in Glyphs

\* The line is wide enough for every character of the text.
EveryCharFits == \A i \in 1..Len(text) : total_char_width(text[i]) <= lep.cursor.width

\* C34: when the line width fits every character of the text, the printed
\* runs of all lines up to EndOfText, joined in order, are the text without
\* its whitespace, newlines, carriage returns, non-breaking spaces and soft
\* hyphens: no character is dropped or printed twice.
C34_ContentPreserved ==
    mode = "returned" /\ result = "EndOfText" /\ EveryCharFits =>
        PrintedLines(lines) = SelectSeq(text, IsGlyph)

\* The sum of the widths of the whitespace, printed-run and cursor-move
\* events among ev.
RECURSIVE EventWidths(_)
EventWidths(ev) ==
    IF ev = <<>> THEN 0
    ELSE (IF Head(ev).kind \in {"whitespace", "printed_characters", "move_cursor"}
          THEN Head(ev).width ELSE 0) + EventWidths(Tail(ev))

\* C35: in a process call that starts with the cursor at 0 (and meets no
\* cursor-backward sequence: these texts have none), the widths of the
\* events emitted so far never sum to more than the line width.
C35_WidthBound ==
    mode \in {"process", "returned"} => EventWidths(elements) <= lep.cursor.width

\* The whitespace events among ev.
WhitespaceEvents(ev) == SelectSeq(ev, LAMBDA e : e.kind = "whitespace")

\* The step is process on a Whitespace run that is neither skipped as leading
\* whitespace nor fits the line entirely.
PartialWhitespace ==
    /\ ProcessWhitespace
    /\ ~(lep.empty /\ ~render_leading_spaces(lep))
    /\ space_width_of(lep.spaces, Peek.tok.n) > lep.cursor.width - lep.cursor.position

\* C36: when a whitespace run of n units does not fit entirely, each
\* whitespace event emitted for it has a count smaller than n and a width of
\* at most the space left on the line, and the width of the whitespace
\* rendered for the run is the configured width of the units reported, for
\* every space configuration.
C36_PartialWhitespace ==
    [][PartialWhitespace =>
          LET ev == WhitespaceEvents(SubSeq(elements', Len(elements) + 1, Len(elements')))
          IN  /\ \A i \in 1..Len(ev) :
                    /\ ev[i].count < Peek.tok.n
                    /\ ev[i].width <= lep.cursor.width - lep.cursor.position
              /\ Len(ev) <= 1
              /\ Len(ev) = 1 => ev[1].width = space_width_of(lep.spaces, ev[1].count)]_vars

====
